---- MODULE Spec2Model ----
(***************************************************************************)
(* A model of the two synthetic sales-pipeline generators of this          *)
(* repository:                                                             *)
(*   GlobalSalesDataGenerator   (case_study_synthetic_sales_data_generator)*)
(*   SalesforceDataGenerator    (salesforce_mimic_opp_creation)            *)
(*                                                                         *)
(* Conventions                                                             *)
(*  - A datetime is the number of whole days since 2023-01-01 00:00.  All  *)
(*    datetimes the generators build are midnights (datetime(y, m, d)      *)
(*    literals plus whole-day timedeltas).                                 *)
(*  - A "%Y-%m-%d" date string is the tuple <<year, month, day>>;          *)
(*    strftime and strptime convert through the Gregorian calendar.        *)
(*  - Python's None is "None" for names, <<>> for date strings and for     *)
(*    optional integers; a present optional integer n is <<n>>.            *)
(*  - Probabilities and curve fractions are integers in hundredths         *)
(*    (0.75 is 75); trend rates are in thousandths.                        *)
(*  - A uniform draw of random.random() is k / DrawGrid, k in              *)
(*    0 .. DrawGrid-1.                                                     *)
(*  - Fields of the output records that are opaque labels (ids, company    *)
(*    and opportunity names, competitor, next step, lead source; region    *)
(*    and rep of GlobalSalesDataGenerator) are not modelled.               *)
(***************************************************************************)
EXTENDS Integers, Sequences, FiniteSets, TLC

VARIABLES
    program,                \* which script runs: "global" or "salesforce"
    arguments,              \* start_date and end_date passed to generate_opportunities
    pc,                     \* position inside the generation loop
    created_date,           \* locals of GlobalSalesDataGenerator.generate_opportunities
    segment,
    is_competitive,
    is_icp,
    amount,
    stage,
    close_date,
    highest_stage_reached,
    stage_data,
    opportunity,            \* the record appended by the current iteration
    cycle_days,             \* the cycle length calculate_deal_progression sampled
    rng_stream,             \* pure-function runs: the uniform draws on offer
    configuration,          \* pure-function runs: result of get_deal_configuration
    outcome,                \* pure-function runs: result of the outcome walk
    return_value,           \* pure-function runs: value returned by the other functions
    region,                 \* locals of SalesforceDataGenerator.generate_opportunities
    rep,
    product,
    progression,            \* locals of SalesforceDataGenerator.calculate_stage_progression
    current_date,
    stage_index             \* current_stage_index of calculate_stage_progression

\* the deal under construction in GlobalSalesDataGenerator
deal_vars == <<created_date, segment, is_competitive, is_icp, amount>>
trial_vars == <<stage, close_date, highest_stage_reached, cycle_days>>
\* the results of the pure-function runs
call_vars == <<rng_stream, configuration, outcome, return_value>>

\* the opportunity under construction in SalesforceDataGenerator
walk_vars == <<region, rep, product, progression, current_date, stage_index>>

vars == <<program, arguments, pc, deal_vars, trial_vars, stage_data, opportunity, call_vars,
          walk_vars>>

-----------------------------------------------------------------------------
(* Bounds of the model *)

\* uniform draws are multiples of 1/DrawGrid
DrawGrid == 5
\* largest sampled sales cycle, in days
MaxCycle == 30
\* latest creation date is end_date; earliest is end_date - MaxDaysFromEnd
MaxDaysFromEnd == 31

\* largest number of days between two calls of the trend functions
MaxAdvance == 31
\* generate_opportunities is also called with an end_date up to MaxLateDays
\* days after the default one
MaxLateDays == 1

-----------------------------------------------------------------------------
(* Python values *)

None == "None"
NoDate == <<>>
NoDays == <<>>
Some(n) == <<n>>
Val(o) == o[1]

Min(a, b) == IF a <= b THEN a ELSE b
Max(a, b) == IF a >= b THEN a ELSE b

RECURSIVE Pow(_, _)
Pow(b, e) == IF e = 0 THEN 1 ELSE b * Pow(b, e - 1)

-----------------------------------------------------------------------------
(* Calendar: datetime <-> "%Y-%m-%d" *)

Years == 2023..2039
Months == 1..12

IsLeap(y) == (y % 4 = 0 /\ y % 100 # 0) \/ y % 400 = 0

DaysInMonth(y, m) ==
    IF m = 2 THEN (IF IsLeap(y) THEN 29 ELSE 28)
    ELSE IF m \in {4, 6, 9, 11} THEN 30 ELSE 31

RECURSIVE DaysBeforeYear(_)
DaysBeforeYear(y) ==
    IF y <= 2023 THEN 0
    ELSE DaysBeforeYear(y - 1) + (IF IsLeap(y - 1) THEN 366 ELSE 365)

RECURSIVE DaysBeforeMonth(_, _)
DaysBeforeMonth(y, m) ==
    IF m <= 1 THEN 0 ELSE DaysBeforeMonth(y, m - 1) + DaysInMonth(y, m - 1)

\* datetime(y, m, d), and datetime.strptime(s, "%Y-%m-%d") of s = <<y, m, d>>
ToOrdinal(ymd) ==
    DaysBeforeYear(ymd[1]) + DaysBeforeMonth(ymd[1], ymd[2]) + (ymd[3] - 1)

LastOrdinal == DaysBeforeYear(2040) - 1

FromOrdinalCalc(n) ==
    LET y == CHOOSE yy \in Years :
                 DaysBeforeYear(yy) <= n /\ n < DaysBeforeYear(yy + 1)
        r == n - DaysBeforeYear(y)
        m == CHOOSE mm \in Months :
                 /\ DaysBeforeMonth(y, mm) <= r
                 /\ r < DaysBeforeMonth(y, mm) + DaysInMonth(y, mm)
    IN  <<y, m, r - DaysBeforeMonth(y, m) + 1>>

CalendarTable == [n \in 0..LastOrdinal |-> FromOrdinalCalc(n)]

\* dt.strftime("%Y-%m-%d"): the time of day is dropped (it is always 00:00)
strftime(dt) == CalendarTable[dt]
strptime(s) == ToOrdinal(s)

\* the hard-coded simulation "current date", datetime(2025, 9, 13)
current_time == ToOrdinal(<<2025, 9, 13>>)
\* baseline of the trend functions, datetime(2023, 1, 1)
baseline_date == ToOrdinal(<<2023, 1, 1>>)

-----------------------------------------------------------------------------
(* IEEE-754 double arithmetic of int(t * x)                                *)
(*                                                                         *)
(* x is a double near n/100.  err is the representation error of x in      *)
(* units of 2^-54 / 100:  x = n/100 - err / (100 * 2^54).  When t*n/100 is *)
(* an integer N and x lies below n/100, the exact product t*x lies just    *)
(* below N; the rounded double product is N unless the shortfall exceeds   *)
(* half an ulp of the doubles just below N, and then int() yields N - 1.   *)
(* In every other case int(t * x) is the floor of t*n/100.                 *)

\* the k with 2^(k-1) < N <= 2^k: doubles just below N have ulp 2^(k-53)
CeilLog2(N) == CHOOSE k \in 0..30 : N <= Pow(2, k) /\ (k = 0 \/ Pow(2, k - 1) < N)

TruncMul(t, n, err) ==
    LET e == t * n
        N == e \div 100
    IN  IF e % 100 = 0 /\ err > 0 /\ N >= 1 /\ t * err > 100 * Pow(2, CeilLog2(N))
        THEN N - 1
        ELSE N

\* the double literal 0.2 lies above 1/5
Err_0_2 == -20

-----------------------------------------------------------------------------
(* GlobalSalesDataGenerator: configuration (__init__) *)

stages == <<"1 - Lead Qualification", "2 - Discovery", "3 - Proposal",
            "4 - Negotiation", "5 - Contract Review", "6 - Closed Lost",
            "7 - Closed Won">>

SegmentNames == {"Enterprise", "Mid-Market", "SMB"}

segments ==
    [s \in SegmentNames |->
        CASE s = "Enterprise" ->
                [min_amount |-> 100000, max_amount |-> 500000, avg_cycle_days |-> 180,
                 win_rate |-> 30, stage_conversion_rates |-> <<80, 70, 60, 75, 85>>]
          [] s = "Mid-Market" ->
                [min_amount |-> 25000, max_amount |-> 100000, avg_cycle_days |-> 90,
                 win_rate |-> 45, stage_conversion_rates |-> <<75, 65, 70, 80, 85>>]
          [] s = "SMB" ->
                [min_amount |-> 5000, max_amount |-> 30000, avg_cycle_days |-> 45,
                 win_rate |-> 60, stage_conversion_rates |-> <<70, 75, 75, 85, 90>>]]

\* mutant: the Mid-Market competitive profile lacks the Contract Review rate
competitive_segments_short ==
    [s \in SegmentNames |->
        CASE s = "Enterprise" ->
                [avg_cycle_days |-> 240, win_rate |-> 20,
                 stage_conversion_rates |-> <<75, 65, 50, 55, 75>>]
          [] s = "Mid-Market" ->
                [avg_cycle_days |-> 135, win_rate |-> 25,
                 stage_conversion_rates |-> <<70, 60, 80, 5>>]
          [] s = "SMB" ->
                [avg_cycle_days |-> 65, win_rate |-> 40,
                 stage_conversion_rates |-> <<65, 70, 60, 75, 85>>]]

competitive_segments ==
    [s \in SegmentNames |->
        CASE s = "Enterprise" ->
                [avg_cycle_days |-> 240, win_rate |-> 20,
                 stage_conversion_rates |-> <<75, 65, 50, 55, 75>>]
          [] s = "Mid-Market" ->
                [avg_cycle_days |-> 135, win_rate |-> 25,
                 stage_conversion_rates |-> <<70, 60, 80, 5, 90>>]
          [] s = "SMB" ->
                [avg_cycle_days |-> 65, win_rate |-> 40,
                 stage_conversion_rates |-> <<65, 70, 60, 75, 85>>]]

non_icp_segments ==
    [s \in SegmentNames |->
        CASE s = "Enterprise" ->
                [avg_cycle_days |-> 280, win_rate |-> 15,
                 stage_conversion_rates |-> <<75, 15, 65, 70, 80>>]
          [] s = "Mid-Market" ->
                [avg_cycle_days |-> 110, win_rate |-> 35,
                 stage_conversion_rates |-> <<70, 50, 65, 75, 85>>]
          [] s = "SMB" ->
                [avg_cycle_days |-> 55, win_rate |-> 55,
                 stage_conversion_rates |-> <<65, 70, 70, 80, 85>>]]

\* trend tables, in thousandths
base_competitive_rates == [s \in SegmentNames |->
    CASE s = "Enterprise" -> 150 [] s = "Mid-Market" -> 200 [] s = "SMB" -> 100]
competitive_growth_rates == [s \in SegmentNames |->
    CASE s = "Enterprise" -> 5 [] s = "Mid-Market" -> 20 [] s = "SMB" -> 3]
base_icp_rates == [s \in SegmentNames |->
    CASE s = "Enterprise" -> 900 [] s = "Mid-Market" -> 800 [] s = "SMB" -> 600]
icp_decline_rates == [s \in SegmentNames |->
    CASE s = "Enterprise" -> 25 [] s = "Mid-Market" -> 3 [] s = "SMB" -> 1]

-----------------------------------------------------------------------------
(* Trend functions and the deal classifier *)

\* months_elapsed without the year term of line 526
months_elapsed_within_year(date) ==
    LET ymd == CalendarTable[date]
        base == CalendarTable[baseline_date]
    IN  ymd[2] - base[2]

\* (created_date.year - 2023) * 12 + created_date.month - 1
months_elapsed(date) ==
    LET ymd == CalendarTable[date]
        base == CalendarTable[baseline_date]
    IN  (ymd[1] - base[1]) * 12 + ymd[2] - base[2]

calculate_competitive_rate(seg, date) ==
    LET max_rates == [s \in SegmentNames |->
            CASE s = "Enterprise" -> 450 [] s = "Mid-Market" -> 700 [] s = "SMB" -> 250]
        competitive_rate ==
            base_competitive_rates[seg] + competitive_growth_rates[seg] * months_elapsed(date)
    IN  Min(competitive_rate, max_rates[seg])

\* calculate_icp_rate without the floor of lines 562-564
calculate_icp_rate_unclamped(seg, date) ==
    base_icp_rates[seg] - icp_decline_rates[seg] * months_elapsed(date)

calculate_icp_rate(seg, date) ==
    LET min_rates == [s \in SegmentNames |->
            CASE s = "Enterprise" -> 300 [] s = "Mid-Market" -> 450 [] s = "SMB" -> 400]
        icp_rate == base_icp_rates[seg] - icp_decline_rates[seg] * months_elapsed(date)
    IN  Max(icp_rate, min_rates[seg])

\* the values random.random() can return in the model: k stands for k / DrawGrid
Draws == 0..(DrawGrid - 1)

\* random.random() < rate, with the draw k / DrawGrid and the rate in 1/unit
DrawLess(k, rate, unit) == k * unit < rate * DrawGrid

is_deal_competitive(seg, date, u) == DrawLess(u, calculate_competitive_rate(seg, date), 1000)
is_account_icp(seg, date, u) == DrawLess(u, calculate_icp_rate(seg, date), 1000)

-----------------------------------------------------------------------------
(* Configuration resolver *)

\* mutant: the competitive branch tested before the Enterprise non-ICP branch
get_deal_configuration_competitive_first(seg, competitive, icp) ==
    IF competitive
    THEN [config |-> competitive_segments[seg], config_type |-> "Competitive"]
    ELSE IF seg = "Enterprise" /\ ~icp
    THEN [config |-> non_icp_segments[seg], config_type |-> "Non-ICP"]
    ELSE [config |-> segments[seg], config_type |-> "Base"]

get_deal_configuration(seg, competitive, icp) ==
    IF seg = "Enterprise" /\ ~icp
    THEN [config |-> non_icp_segments[seg], config_type |-> "Non-ICP"]
    ELSE IF competitive
    THEN [config |-> competitive_segments[seg], config_type |-> "Competitive"]
    ELSE [config |-> segments[seg], config_type |-> "Base"]

-----------------------------------------------------------------------------
(* Outcome simulator *)

stage_names == <<"1 - Lead Qualification", "2 - Discovery", "3 - Proposal",
                 "4 - Negotiation", "5 - Contract Review">>

\* mutant: the draw compared with <=
RECURSIVE OutcomeWalkInclusive(_, _, _, _)
OutcomeWalkInclusive(conversion_rates, u, i, current_stage_index) ==
    IF i > Len(conversion_rates)
    THEN [final_stage |-> "7 - Closed Won",
          highest_stage_reached |-> "5 - Contract Review",
          draws |-> i - 1]
    ELSE IF u[i] * 100 <= conversion_rates[i] * DrawGrid
    THEN OutcomeWalkInclusive(conversion_rates, u, i + 1, i)
    ELSE [final_stage |-> "6 - Closed Lost",
          highest_stage_reached |-> stage_names[current_stage_index + 1],
          draws |-> i]

\* mutant: a deal advances when the draw is above the conversion rate
RECURSIVE OutcomeWalkReversed(_, _, _, _)
OutcomeWalkReversed(conversion_rates, u, i, current_stage_index) ==
    IF i > Len(conversion_rates)
    THEN [final_stage |-> "7 - Closed Won",
          highest_stage_reached |-> "5 - Contract Review",
          draws |-> i - 1]
    ELSE IF ~DrawLess(u[i], conversion_rates[i], 100)
    THEN OutcomeWalkReversed(conversion_rates, u, i + 1, i)
    ELSE [final_stage |-> "6 - Closed Lost",
          highest_stage_reached |-> stage_names[current_stage_index + 1],
          draws |-> i]

\* One step of the for loop over conversion_rates: i is the 1-based position,
\* current_stage_index the Python (0-based) index, u the stream of draws.
\* draws counts the calls of random.random() made.
RECURSIVE OutcomeWalk(_, _, _, _)
OutcomeWalk(conversion_rates, u, i, current_stage_index) ==
    IF i > Len(conversion_rates)
    THEN [final_stage |-> "7 - Closed Won",
          highest_stage_reached |-> "5 - Contract Review",
          draws |-> i - 1]
    ELSE IF DrawLess(u[i], conversion_rates[i], 100)
    THEN OutcomeWalk(conversion_rates, u, i + 1, i)
    ELSE [final_stage |-> "6 - Closed Lost",
          highest_stage_reached |-> stage_names[current_stage_index + 1],
          draws |-> i]

determine_deal_outcome_and_highest_stage(seg, competitive, icp, u) ==
    LET conversion_rates ==
            get_deal_configuration(seg, competitive, icp).config.stage_conversion_rates
    IN  OutcomeWalk(conversion_rates, u, 1, 0)

-----------------------------------------------------------------------------
(* Timeline builder: calculate_stage_progression *)

\* "Stage_" + num + "_" + label.replace(" ", "_") + "_Date", by stage position
DateField(i) ==
    CASE i = 1 -> "Stage_1_Lead_Qualification_Date"
      [] i = 2 -> "Stage_2_Discovery_Date"
      [] i = 3 -> "Stage_3_Proposal_Date"
      [] i = 4 -> "Stage_4_Negotiation_Date"
      [] i = 5 -> "Stage_5_Contract_Review_Date"
      [] i = 6 -> "Stage_6_Closed_Lost_Date"
      [] i = 7 -> "Stage_7_Closed_Won_Date"

\* f"Days_in_Stage_{stage_num}_{stage_label}", by stage position
DaysField(i) ==
    CASE i = 1 -> "Days_in_Stage_1_Lead_Qualification"
      [] i = 2 -> "Days_in_Stage_2_Discovery"
      [] i = 3 -> "Days_in_Stage_3_Proposal"
      [] i = 4 -> "Days_in_Stage_4_Negotiation"
      [] i = 5 -> "Days_in_Stage_5_Contract_Review"
      [] i = 6 -> "Days_in_Stage_6_Closed_Lost"
      [] i = 7 -> "Days_in_Stage_7_Closed_Won"

\* mutant: the competitive curve chosen before the Enterprise non-ICP one
stage_progression_competitive_first(config_type, seg, competitive) ==
    IF competitive
    THEN [pct     |-> <<0, 8, 15, 18, 90, 100, 100>>,
          pct_err |-> <<0, -3, 10, 12, -40>>,
          dur_err |-> <<0, -3, 13, 2, 48>>]
    ELSE IF config_type = "Non-ICP" /\ seg = "Enterprise"
    THEN [pct     |-> <<0, 5, 75, 85, 95, 100, 100>>,
          pct_err |-> <<0, -5, 0, 40, 80>>,
          dur_err |-> <<0, -5, 80, 40, 40>>]
    ELSE [pct     |-> <<0, 15, 35, 55, 75, 100, 100>>,
          pct_err |-> <<0, 10, 40, -80, 0>>,
          dur_err |-> <<0, 10, 30, -120, 80>>]

\* mutant: only Mid-Market deals get the competitive curve
stage_progression_mid_market_competitive(config_type, seg, competitive) ==
    IF config_type = "Non-ICP" /\ seg = "Enterprise"
    THEN [pct     |-> <<0, 5, 75, 85, 95, 100, 100>>,
          pct_err |-> <<0, -5, 0, 40, 80>>,
          dur_err |-> <<0, -5, 80, 40, 40>>]
    ELSE IF competitive /\ seg = "Mid-Market"
    THEN [pct     |-> <<0, 8, 15, 18, 90, 100, 100>>,
          pct_err |-> <<0, -3, 10, 12, -40>>,
          dur_err |-> <<0, -3, 13, 2, 48>>]
    ELSE [pct     |-> <<0, 15, 35, 55, 75, 100, 100>>,
          pct_err |-> <<0, 10, 40, -80, 0>>,
          dur_err |-> <<0, 10, 30, -120, 80>>]

\* The stage_progression dict chosen for the deal: pct[i] is the fraction of
\* the cycle, in hundredths, at which stage i is entered.  pct_err[i] is the
\* representation error of the double literal and dur_err[i] that of the
\* double difference stage_pct - prev_stage_pct (see TruncMul).
stage_progression(config_type, seg, competitive) ==
    IF config_type = "Non-ICP" /\ seg = "Enterprise"
    THEN [pct     |-> <<0, 5, 75, 85, 95, 100, 100>>,
          pct_err |-> <<0, -5, 0, 40, 80>>,
          dur_err |-> <<0, -5, 80, 40, 40>>]
    ELSE IF competitive
    THEN [pct     |-> <<0, 8, 15, 18, 90, 100, 100>>,
          pct_err |-> <<0, -3, 10, 12, -40>>,
          dur_err |-> <<0, -3, 13, 2, 48>>]
    ELSE [pct     |-> <<0, 15, 35, 55, 75, 100, 100>>,
          pct_err |-> <<0, 10, 40, -80, 0>>,
          dur_err |-> <<0, 10, 30, -120, 80>>]

\* int(stage_duration * 0.2), the bound of random.randint for stage i
JitterBound(curve, total_cycle_days, i) ==
    LET stage_duration ==
            TruncMul(total_cycle_days, curve.pct[i] - curve.pct[i - 1], curve.dur_err[i])
    IN  TruncMul(stage_duration, 20, Err_0_2)

\* entry datetime of the non-terminal stage i >= 2 (the same code in the
\* closed-lost, closed-won and open branches); randomness is the randint draw
StageEntryDate(curve, created, total_cycle_days, i, randomness) ==
    LET days_to_stage == TruncMul(total_cycle_days, curve.pct[i], curve.pct_err[i])
        stage_entry_date == created + days_to_stage
    IN  Max(stage_entry_date + randomness, created + 1)

\* min(0.9, deal_age / total_cycle_days) as a fraction <<numerator, denominator>>
ProgressRatio(deal_age, total_cycle_days) ==
    IF 9 * total_cycle_days <= 10 * deal_age
    THEN <<9, 10>>
    ELSE <<deal_age, total_cycle_days>>

\* mutant: progress_ratio <= threshold
RatioLessInclusive(ratio, n) == 100 * ratio[1] <= n * ratio[2]

\* progress_ratio < n/100 and n/100 <= progress_ratio.  The quotient of two
\* integers below 2^31 and a two-digit decimal literal compare as doubles the
\* way they compare as rationals.
RatioLess(ratio, n) == 100 * ratio[1] < n * ratio[2]
RatioAtLeast(ratio, n) == n * ratio[2] <= 100 * ratio[1]

\* mutant: the closed-lost branch leaves out the stages that were not reached
LostStageDatesReachedOnly(curve, created, expected_close_date, highest, randomness) ==
    LET total_cycle_days == expected_close_date - created
        reached == IF \E i \in 1..5 : stage_names[i] = highest
                   THEN CHOOSE i \in 1..5 : stage_names[i] = highest
                   ELSE 5
        keys == {DateField(1)} \cup {DateField(i) : i \in 2..reached}
                    \cup {DateField(6), DateField(7)}
        stage_of(f) == CHOOSE i \in 1..7 : DateField(i) = f
    IN  [f \in keys |->
            LET i == stage_of(f)
            IN  IF i = 1 THEN strftime(created)
                ELSE IF i = 6 THEN strftime(expected_close_date)
                ELSE IF i = 7 THEN NoDate
                ELSE strftime(StageEntryDate(curve, created, total_cycle_days, i,
                                             randomness[i]))]

\* stage_dates of the closed-lost branch
LostStageDates(curve, created, expected_close_date, highest, randomness) ==
    LET total_cycle_days == expected_close_date - created
        \* stages_reached is stage_names[1..reached]
        reached == IF \E i \in 1..5 : stage_names[i] = highest
                   THEN CHOOSE i \in 1..5 : stage_names[i] = highest
                   ELSE 5
        keys == {DateField(1)} \cup {DateField(i) : i \in 2..reached}
                    \cup {DateField(6), DateField(7)}
                    \cup {DateField(i) : i \in (2..5) \ (2..reached)}
        stage_of(f) == CHOOSE i \in 1..7 : DateField(i) = f
    IN  [f \in keys |->
            LET i == stage_of(f)
            IN  IF i = 1 THEN strftime(created)
                ELSE IF i = 6 THEN strftime(expected_close_date)
                ELSE IF i = 7 THEN NoDate
                ELSE IF i <= reached
                THEN strftime(StageEntryDate(curve, created, total_cycle_days, i,
                                             randomness[i]))
                ELSE NoDate]

\* mutant: the closed-won branch dates the Closed Lost stage too
WonStageDatesBothTerminal(curve, created, expected_close_date, randomness) ==
    LET total_cycle_days == expected_close_date - created
    IN  [f \in {DateField(i) : i \in 1..7} |->
            LET i == CHOOSE k \in 1..7 : DateField(k) = f
            IN  IF i = 1 THEN strftime(created)
                ELSE IF i \in {6, 7} THEN strftime(expected_close_date)
                ELSE strftime(StageEntryDate(curve, created, total_cycle_days, i,
                                             randomness[i]))]

\* stage_dates of the closed-won branch
WonStageDates(curve, created, expected_close_date, randomness) ==
    LET total_cycle_days == expected_close_date - created
        keys == {DateField(1)} \cup {DateField(i) : i \in 2..5}
                    \cup {DateField(7), DateField(6)}
        stage_of(f) == CHOOSE i \in 1..7 : DateField(i) = f
    IN  [f \in keys |->
            LET i == stage_of(f)
            IN  IF i = 1 THEN strftime(created)
                ELSE IF i = 7 THEN strftime(expected_close_date)
                ELSE IF i = 6 THEN NoDate
                ELSE strftime(StageEntryDate(curve, created, total_cycle_days, i,
                                             randomness[i]))]

\* whether the open branch gives stage i (2..5) an entry date
OpenReached(curve, created, total_cycle_days, i) ==
    LET deal_age == current_time - created
        progress_ratio == ProgressRatio(deal_age, total_cycle_days)
    IN  RatioAtLeast(progress_ratio, curve.pct[i])

\* stage_dates of the open branch
OpenStageDates(curve, created, expected_close_date, randomness) ==
    LET total_cycle_days == expected_close_date - created
        keys == {DateField(i) : i \in 1..7}
        stage_of(f) == CHOOSE i \in 1..7 : DateField(i) = f
    IN  [f \in keys |->
            LET i == stage_of(f)
            IN  IF i = 1 THEN strftime(created)
                ELSE IF i \in {6, 7} THEN NoDate
                ELSE IF OpenReached(curve, created, total_cycle_days, i)
                THEN strftime(StageEntryDate(curve, created, total_cycle_days, i,
                                             randomness[i]))
                ELSE NoDate]

IsSet(stage_dates, i) ==
    DateField(i) \in DOMAIN stage_dates /\ stage_dates[DateField(i)] # NoDate

\* mutant: every dwell clamped at zero, not only the last stage's
DaysInStageClamped(stage_dates, i, expected_close_date, final_stage) ==
    IF ~IsSet(stage_dates, i)
    THEN NoDays
    ELSE LET current_stage_date == strptime(stage_dates[DateField(i)])
             later == {j \in (i + 1)..7 : IsSet(stage_dates, j)}
         IN  IF later # {}
             THEN LET j == CHOOSE k \in later : \A l \in later : k <= l
                  IN  Some(Max(0, strptime(stage_dates[DateField(j)]) - current_stage_date))
             ELSE IF final_stage \in {"6 - Closed Lost", "7 - Closed Won"}
             THEN Some(Max(0, expected_close_date - current_stage_date))
             ELSE Some(Max(0, current_time - current_stage_date))

\* days_in_stage[days_field] of stage i, from the finished stage_dates
DaysInStage(stage_dates, i, expected_close_date, final_stage) ==
    IF ~IsSet(stage_dates, i)
    THEN NoDays
    ELSE LET current_stage_date == strptime(stage_dates[DateField(i)])
             later == {j \in (i + 1)..7 : IsSet(stage_dates, j)}
         IN  IF later # {}
             THEN LET j == CHOOSE k \in later : \A l \in later : k <= l
                      next_stage_date == strptime(stage_dates[DateField(j)])
                  IN  Some(next_stage_date - current_stage_date)
             ELSE IF final_stage \in {"6 - Closed Lost", "7 - Closed Won"}
             THEN Some(Max(0, expected_close_date - current_stage_date))
             ELSE Some(Max(0, current_time - current_stage_date))

\* randomness[i] is the value random.randint returns for stage i (2..5), when
\* the branch taken draws one for that stage
calculate_stage_progression(seg, created, expected_close_date, final_stage, highest, competitive, icp, randomness) ==
    LET config_type == get_deal_configuration(seg, competitive, icp).config_type
        curve == stage_progression(config_type, seg, competitive)
        stage_dates ==
            IF final_stage = "6 - Closed Lost" /\ highest # None
            THEN LostStageDates(curve, created, expected_close_date, highest, randomness)
            ELSE IF final_stage = "7 - Closed Won"
            THEN WonStageDates(curve, created, expected_close_date, randomness)
            ELSE OpenStageDates(curve, created, expected_close_date, randomness)
        days_in_stage ==
            [f \in {DaysField(i) : i \in 1..7} |->
                DaysInStage(stage_dates, CHOOSE i \in 1..7 : DaysField(i) = f,
                            expected_close_date, final_stage)]
    IN  \* result = stage_dates.copy(); result.update(days_in_stage)
        [f \in DOMAIN stage_dates \cup DOMAIN days_in_stage |->
            IF f \in DOMAIN days_in_stage THEN days_in_stage[f] ELSE stage_dates[f]]

\* the stages for which the branch taken calls random.randint
StagesDrawn(seg, created, expected_close_date, final_stage, highest, competitive, icp) ==
    LET config_type == get_deal_configuration(seg, competitive, icp).config_type
        curve == stage_progression(config_type, seg, competitive)
    IN  IF final_stage = "6 - Closed Lost" /\ highest # None
        THEN {i \in 2..5 : \A j \in 1..5 : stage_names[j] = highest => i <= j}
        ELSE IF final_stage = "7 - Closed Won"
        THEN 2..5
        ELSE {i \in 2..5 : OpenReached(curve, created, expected_close_date - created, i)}

-----------------------------------------------------------------------------
(* Outcome simulator for the deal as a whole: calculate_deal_progression *)

\* the streams of five uniform draws random.random() can deliver
Streams == [1..5 -> Draws]

\* mutant: a deal closing on the as-of date is still open
calculate_deal_progression_strictly_past(seg, created, competitive, icp, normal_sample, walk) ==
    LET config_type == get_deal_configuration(seg, competitive, icp).config_type
        actual_cycle == Max(20, normal_sample)
        expected_close_date == created + actual_cycle
        deal_age == current_time - created
        progress_ratio == ProgressRatio(deal_age, actual_cycle)
        open(name) == [stage |-> name, close_date |-> expected_close_date,
                       highest_stage_reached |-> None, actual_cycle |-> actual_cycle]
    IN  IF expected_close_date < current_time
        THEN [stage |-> walk.final_stage, close_date |-> expected_close_date,
              highest_stage_reached |-> walk.highest_stage_reached,
              actual_cycle |-> actual_cycle]
        ELSE IF config_type = "Non-ICP" /\ seg = "Enterprise"
        THEN IF RatioLess(progress_ratio, 10) THEN open("1 - Lead Qualification")
             ELSE IF RatioLess(progress_ratio, 60) THEN open("2 - Discovery")
             ELSE IF RatioLess(progress_ratio, 75) THEN open("3 - Proposal")
             ELSE IF RatioLess(progress_ratio, 90) THEN open("4 - Negotiation")
             ELSE open("5 - Contract Review")
        ELSE IF competitive
        THEN IF RatioLess(progress_ratio, 10) THEN open("1 - Lead Qualification")
             ELSE IF RatioLess(progress_ratio, 20) THEN open("2 - Discovery")
             ELSE IF RatioLess(progress_ratio, 25) THEN open("3 - Proposal")
             ELSE IF RatioLess(progress_ratio, 80) THEN open("4 - Negotiation")
             ELSE open("5 - Contract Review")
        ELSE IF RatioLess(progress_ratio, 15) THEN open("1 - Lead Qualification")
             ELSE IF RatioLess(progress_ratio, 35) THEN open("2 - Discovery")
             ELSE IF RatioLess(progress_ratio, 55) THEN open("3 - Proposal")
             ELSE IF RatioLess(progress_ratio, 75) THEN open("4 - Negotiation")
             ELSE open("5 - Contract Review")

\* normal_sample is int(np.random.normal(base_cycle, base_cycle * 0.3)); walk
\* is what determine_deal_outcome_and_highest_stage returns if it is called.
\* The result carries the local actual_cycle next to the three values returned.
calculate_deal_progression(seg, created, competitive, icp, normal_sample, walk) ==
    LET config_type == get_deal_configuration(seg, competitive, icp).config_type
        actual_cycle == Max(20, normal_sample)
        expected_close_date == created + actual_cycle
        deal_age == current_time - created
        progress_ratio == ProgressRatio(deal_age, actual_cycle)
        open(name) == [stage |-> name, close_date |-> expected_close_date,
                       highest_stage_reached |-> None, actual_cycle |-> actual_cycle]
    IN  IF expected_close_date <= current_time
        THEN [stage |-> walk.final_stage, close_date |-> expected_close_date,
              highest_stage_reached |-> walk.highest_stage_reached,
              actual_cycle |-> actual_cycle]
        ELSE IF config_type = "Non-ICP" /\ seg = "Enterprise"
        THEN IF RatioLess(progress_ratio, 10) THEN open("1 - Lead Qualification")
             ELSE IF RatioLess(progress_ratio, 60) THEN open("2 - Discovery")
             ELSE IF RatioLess(progress_ratio, 75) THEN open("3 - Proposal")
             ELSE IF RatioLess(progress_ratio, 90) THEN open("4 - Negotiation")
             ELSE open("5 - Contract Review")
        ELSE IF competitive
        THEN IF RatioLess(progress_ratio, 10) THEN open("1 - Lead Qualification")
             ELSE IF RatioLess(progress_ratio, 20) THEN open("2 - Discovery")
             ELSE IF RatioLess(progress_ratio, 25) THEN open("3 - Proposal")
             ELSE IF RatioLess(progress_ratio, 80) THEN open("4 - Negotiation")
             ELSE open("5 - Contract Review")
        ELSE IF RatioLess(progress_ratio, 15) THEN open("1 - Lead Qualification")
             ELSE IF RatioLess(progress_ratio, 35) THEN open("2 - Discovery")
             ELSE IF RatioLess(progress_ratio, 55) THEN open("3 - Proposal")
             ELSE IF RatioLess(progress_ratio, 75) THEN open("4 - Negotiation")
             ELSE open("5 - Contract Review")

\* every result determine_deal_outcome_and_highest_stage can return, over all
\* streams of draws (tabulated once per deal type)
WalkResults ==
    [seg \in SegmentNames, competitive \in BOOLEAN, icp \in BOOLEAN |->
        {determine_deal_outcome_and_highest_stage(seg, competitive, icp, u) : u \in Streams}]

-----------------------------------------------------------------------------
(* Deal assembler: generate_opportunities *)

\* default arguments of generate_opportunities
start_date == ToOrdinal(<<2023, 1, 1>>)
end_date == ToOrdinal(<<2025, 9, 13>>)
\* the default arguments of generate_opportunities
DefaultArguments == [start_date |-> start_date, end_date |-> end_date]

\* (created_date.year - 2023) * 4 + (created_date.month - 1) // 3
quarters_elapsed(date) ==
    LET ymd == CalendarTable[date]
    IN  (ymd[1] - 2023) * 4 + (ymd[2] - 1) \div 3

\* get_growth_multiplier is 1.25^quarters * uniform(0.9, 1.1); the model draws
\* the whole-number multipliers in that interval
GrowthMultipliers(date) ==
    LET q == quarters_elapsed(date)
    IN  {m \in 1..12 : 9 * Pow(5, q) <= 10 * m * Pow(4, q)
                       /\ 10 * m * Pow(4, q) <= 11 * Pow(5, q)}

\* mutant: the competitive table chosen before the Enterprise non-ICP one
stage_probs_competitive_first(config_type, seg, competitive) ==
    IF competitive
    THEN <<10, 15, 25, 35, 60>>
    ELSE IF config_type = "Non-ICP" /\ seg = "Enterprise"
    THEN <<8, 12, 30, 50, 70>>
    ELSE <<15, 25, 40, 65, 85>>

\* stage -> probability lookup tables of open deals; err as in TruncMul for
\* the double probability / 100
stage_probs(config_type, seg, competitive) ==
    IF config_type = "Non-ICP" /\ seg = "Enterprise"
    THEN <<8, 12, 30, 50, 70>>
    ELSE IF competitive
    THEN <<10, 15, 25, 35, 60>>
    ELSE <<15, 25, 40, 65, 85>>

ProbErr(p) ==
    CASE p = 8 -> -3 [] p = 10 -> -10 [] p = 12 -> 8 [] p = 15 -> 10
      [] p = 25 -> 0 [] p = 30 -> 20 [] p = 35 -> 40 [] p = 40 -> -40
      [] p = 50 -> 0 [] p = 60 -> 40 [] p = 65 -> -40 [] p = 70 -> 80
      [] p = 85 -> 40

\* probability and expected_revenue
Probability(st, seg, competitive, icp) ==
    IF st = "7 - Closed Won" THEN 100
    ELSE IF st = "6 - Closed Lost" THEN 0
    ELSE LET config_type == get_deal_configuration(seg, competitive, icp).config_type
             table == stage_probs(config_type, seg, competitive)
         IN  table[CHOOSE i \in 1..5 : stage_names[i] = st]

\* mutant: the probability used as a factor without the division by 100
ExpectedRevenueUnscaled(st, amt, probability) ==
    IF st = "7 - Closed Won" THEN amt
    ELSE IF st = "6 - Closed Lost" THEN 0
    ELSE amt * probability

\* int(expected_revenue)
ExpectedRevenue(st, amt, probability) ==
    IF st = "7 - Closed Won" THEN amt
    ELSE IF st = "6 - Closed Lost" THEN 0
    ELSE TruncMul(amt, probability, ProbErr(probability))

\* mutant: Highest_Stage_Reached recorded for every deal
OpportunityRecordKeepsHighest(seg, created, competitive, icp, amt, st, close, highest, data) ==
    LET probability == Probability(st, seg, competitive, icp)
        fields ==
            [Stage |-> st,
             Amount |-> amt,
             Expected_Revenue |-> ExpectedRevenue(st, amt, probability),
             Probability_Percent |-> probability,
             Segment |-> seg,
             Created_Date |-> strftime(created),
             Close_Date |-> strftime(close),
             Age_Days |-> current_time - created,
             Highest_Stage_Reached |-> highest,
             Competitive_Deal |-> competitive,
             Is_ICP_Account |-> icp]
    IN  [f \in DOMAIN fields \cup DOMAIN data |->
            IF f \in DOMAIN data THEN data[f] ELSE fields[f]]

\* the opportunity dict, after opportunity.update(stage_data)
OpportunityRecord(seg, created, competitive, icp, amt, st, close, highest, data) ==
    LET probability == Probability(st, seg, competitive, icp)
        fields ==
            [Stage |-> st,
             Amount |-> amt,
             Expected_Revenue |-> ExpectedRevenue(st, amt, probability),
             Probability_Percent |-> probability,
             Segment |-> seg,
             Created_Date |-> strftime(created),
             Close_Date |-> strftime(close),
             Age_Days |-> current_time - created,
             Highest_Stage_Reached |-> IF st = "6 - Closed Lost" THEN highest ELSE None,
             Competitive_Deal |-> competitive,
             Is_ICP_Account |-> icp]
    IN  [f \in DOMAIN fields \cup DOMAIN data |->
            IF f \in DOMAIN data THEN data[f] ELSE fields[f]]

NoStageData == <<>>
NoOpportunity == <<>>
NoStream == <<>>
NoOutcome == [final_stage |-> None, highest_stage_reached |-> None, draws |-> 0]
NoConfiguration == [config |-> <<>>, config_type |-> None]
NoResult == <<>>

\* the loop body of generate_opportunities, in four steps

\* created date, segment, challenge flags and amount
PickDeal ==
    /\ program = "global"
    /\ pc = "select"
    /\ \E days_sample \in 0..MaxDaysFromEnd, seg \in SegmentNames,
          u_competitive \in Draws, u_icp \in Draws :
          LET total_days == arguments.end_date - arguments.start_date
              days_from_end == Min(days_sample, total_days)
              created == arguments.end_date - days_from_end
          IN  \E base_amount \in {segments[seg].min_amount, segments[seg].max_amount},
                 growth_multiplier \in GrowthMultipliers(created) :
                  /\ created_date' = created
                  /\ segment' = seg
                  /\ is_competitive' = is_deal_competitive(seg, created, u_competitive)
                  /\ is_icp' = is_account_icp(seg, created, u_icp)
                  /\ amount' = base_amount * growth_multiplier
    /\ pc' = "progression"
    /\ UNCHANGED <<program, arguments, walk_vars, trial_vars, stage_data, opportunity, call_vars>>

\* stage, close_date, highest_stage_reached = self.calculate_deal_progression(...)
DealProgression ==
    /\ program = "global"
    /\ pc = "progression"
    /\ \E normal_sample \in 19..MaxCycle :
          \E walk \in WalkResults[segment, is_competitive, is_icp] :
              LET r == calculate_deal_progression(segment, created_date, is_competitive,
                                                  is_icp, normal_sample, walk)
              IN  /\ stage' = r.stage
                  /\ close_date' = r.close_date
                  /\ highest_stage_reached' = r.highest_stage_reached
                  /\ cycle_days' = r.actual_cycle
    /\ pc' = "timeline"
    /\ UNCHANGED <<program, arguments, walk_vars, deal_vars, stage_data, opportunity, call_vars>>

\* stage_data = self.calculate_stage_progression(...)
StageProgression ==
    /\ program = "global"
    /\ pc = "timeline"
    /\ LET config_type ==
               get_deal_configuration(segment, is_competitive, is_icp).config_type
           curve == stage_progression(config_type, segment, is_competitive)
           drawn == StagesDrawn(segment, created_date, close_date, stage,
                                highest_stage_reached, is_competitive, is_icp)
           range(i) == IF i \in drawn
                       THEN LET b == JitterBound(curve, close_date - created_date, i)
                            IN  (0 - b)..b
                       ELSE {0}
       IN  \E r2 \in range(2), r3 \in range(3), r4 \in range(4), r5 \in range(5) :
              stage_data' = calculate_stage_progression(
                                segment, created_date, close_date, stage,
                                highest_stage_reached, is_competitive, is_icp,
                                <<0, r2, r3, r4, r5>>)
    /\ pc' = "assemble"
    /\ UNCHANGED <<program, arguments, walk_vars, deal_vars, trial_vars, opportunity, call_vars>>

\* probability, expected revenue, the record, opportunities.append(opportunity)
AssembleOpportunity ==
    /\ program = "global"
    /\ pc = "assemble"
    /\ opportunity' = OpportunityRecord(segment, created_date, is_competitive, is_icp,
                                        amount, stage, close_date,
                                        highest_stage_reached, stage_data)
    /\ pc' = "appended"
    /\ UNCHANGED <<program, arguments, walk_vars, deal_vars, trial_vars, stage_data, call_vars>>

\* for i in range(num_deals): the next iteration starts; the values the
\* previous iteration left in the locals are dead and the appended record is
\* no longer looked at
NextDeal ==
    /\ program = "global"
    /\ pc = "appended"
    /\ pc' = "select"
    /\ created_date' = 0
    /\ segment' = None
    /\ is_competitive' = FALSE
    /\ is_icp' = FALSE
    /\ amount' = 0
    /\ stage' = None
    /\ close_date' = 0
    /\ highest_stage_reached' = None
    /\ cycle_days' = 0
    /\ stage_data' = NoStageData
    /\ opportunity' = NoOpportunity
    /\ UNCHANGED <<program, arguments, walk_vars, call_vars>>

\* no deal under construction, no pure-function run
NoDeal ==
    /\ created_date = 0
    /\ segment = None
    /\ is_competitive = FALSE
    /\ is_icp = FALSE
    /\ amount = 0
NoTrial ==
    /\ stage = None
    /\ close_date = 0
    /\ highest_stage_reached = None
    /\ cycle_days = 0
    /\ stage_data = NoStageData
    /\ opportunity = NoOpportunity
NoCall ==
    /\ rng_stream = NoStream
    /\ configuration = NoConfiguration
    /\ outcome = NoOutcome
    /\ return_value = NoResult
NoWalk ==
    /\ region = None
    /\ rep = None
    /\ product = None
    /\ progression = <<>>
    /\ current_date = 0
    /\ stage_index = 0

\* GlobalSalesDataGenerator() constructed, generate_opportunities entered
Init ==
    /\ program = "global"
    /\ arguments = DefaultArguments
    /\ pc = "select"
    /\ NoDeal
    /\ NoTrial
    /\ NoCall
    /\ NoWalk

Next ==
    \/ PickDeal
    \/ DealProgression
    \/ StageProgression
    \/ AssembleOpportunity
    \/ NextDeal

Spec == Init /\ [][Next]_vars

-----------------------------------------------------------------------------
(* Runs of the pure functions of GlobalSalesDataGenerator on drawn inputs:  *)
(* get_deal_configuration, then determine_deal_outcome_and_highest_stage    *)
(* reading the stream rng_stream of uniform draws.                          *)

ResolveConfiguration ==
    /\ program = "global"
    /\ pc = "call"
    /\ configuration' = get_deal_configuration(segment, is_competitive, is_icp)
    /\ pc' = "resolved"
    /\ UNCHANGED <<program, arguments, walk_vars, deal_vars, trial_vars, stage_data, opportunity,
                   rng_stream, outcome, return_value>>

WalkOutcome ==
    /\ program = "global"
    /\ pc = "resolved"
    /\ outcome' = determine_deal_outcome_and_highest_stage(segment, is_competitive,
                                                           is_icp, rng_stream)
    /\ pc' = "returned"
    /\ UNCHANGED <<program, arguments, walk_vars, deal_vars, trial_vars, stage_data, opportunity,
                   rng_stream, configuration, return_value>>

InitCall ==
    /\ program = "global"
    /\ arguments = DefaultArguments
    /\ pc = "call"
    /\ created_date = 0
    /\ segment \in SegmentNames
    /\ is_competitive \in BOOLEAN
    /\ is_icp \in BOOLEAN
    /\ amount = 0
    /\ NoTrial
    /\ rng_stream \in Streams
    /\ configuration = NoConfiguration
    /\ outcome = NoOutcome
    /\ return_value = NoResult
    /\ NoWalk

NextCall == ResolveConfiguration \/ WalkOutcome

SpecCall == InitCall /\ [][NextCall]_vars

-----------------------------------------------------------------------------
(* SalesforceDataGenerator: configuration (__init__)                       *)
(*                                                                         *)
(* Rates and modifiers are integers in hundredths, product modifiers in    *)
(* tenths.  A conversion probability is an exact fraction <<num, den>>.    *)

salesforce_stages ==
    <<"1 - Lead Qualification", "2 - Discovery", "3 - Proposal Development",
      "4 - Negotiation", "5 - Contract Review", "6 - Closed Lost", "7 - Closed Won">>

\* list(self.geo_structure.keys())
Regions == <<"North America", "Europe", "Asia Pacific", "Latin America">>

\* self.reps in insertion order: geo_structure flattened
rep_list == <<
    [name |-> "Sarah Chen", region |-> "North America", experience |-> "senior", specialty |-> "enterprise", skill_multiplier |-> 130, location |-> "US West"],
    [name |-> "Mike Rodriguez", region |-> "North America", experience |-> "senior", specialty |-> "enterprise", skill_multiplier |-> 120, location |-> "US East"],
    [name |-> "Alex Thompson", region |-> "North America", experience |-> "junior", specialty |-> "smb", skill_multiplier |-> 90, location |-> "US Central"],
    [name |-> "Jordan Kim", region |-> "North America", experience |-> "junior", specialty |-> "smb", skill_multiplier |-> 85, location |-> "Canada"],
    [name |-> "Taylor Brown", region |-> "North America", experience |-> "mid", specialty |-> "general", skill_multiplier |-> 70, location |-> "Mexico"],
    [name |-> "Jamie Wilson", region |-> "North America", experience |-> "mid", specialty |-> "mid_market", skill_multiplier |-> 110, location |-> "US West"],
    [name |-> "Chris Davis", region |-> "North America", experience |-> "senior", specialty |-> "api", skill_multiplier |-> 125, location |-> "US East"],
    [name |-> "Morgan Lee", region |-> "North America", experience |-> "mid", specialty |-> "enterprise", skill_multiplier |-> 100, location |-> "US Central"],
    [name |-> "Casey Martinez", region |-> "North America", experience |-> "junior", specialty |-> "smb", skill_multiplier |-> 88, location |-> "Mexico"],
    [name |-> "Emma Clarke", region |-> "Europe", experience |-> "senior", specialty |-> "enterprise", skill_multiplier |-> 125, location |-> "UK & Ireland"],
    [name |-> "Hans Mueller", region |-> "Europe", experience |-> "senior", specialty |-> "enterprise", skill_multiplier |-> 115, location |-> "DACH"],
    [name |-> "Sophie Dubois", region |-> "Europe", experience |-> "mid", specialty |-> "mid_market", skill_multiplier |-> 105, location |-> "France"],
    [name |-> "Erik Larsson", region |-> "Europe", experience |-> "mid", specialty |-> "general", skill_multiplier |-> 100, location |-> "Nordics"],
    [name |-> "Marco Rossi", region |-> "Europe", experience |-> "junior", specialty |-> "smb", skill_multiplier |-> 82, location |-> "Southern Europe"],
    [name |-> "Anna van Berg", region |-> "Europe", experience |-> "mid", specialty |-> "api", skill_multiplier |-> 112, location |-> "Benelux"],
    [name |-> "James O'Connor", region |-> "Europe", experience |-> "junior", specialty |-> "smb", skill_multiplier |-> 87, location |-> "UK & Ireland"],
    [name |-> "Yuki Tanaka", region |-> "Asia Pacific", experience |-> "senior", specialty |-> "enterprise", skill_multiplier |-> 120, location |-> "Japan"],
    [name |-> "Oliver Smith", region |-> "Asia Pacific", experience |-> "senior", specialty |-> "mid_market", skill_multiplier |-> 118, location |-> "Australia & NZ"],
    [name |-> "Priya Sharma", region |-> "Asia Pacific", experience |-> "mid", specialty |-> "api", skill_multiplier |-> 108, location |-> "India"],
    [name |-> "Li Wei", region |-> "Asia Pacific", experience |-> "mid", specialty |-> "general", skill_multiplier |-> 95, location |-> "Southeast Asia"],
    [name |-> "Kim Min-jun", region |-> "Asia Pacific", experience |-> "junior", specialty |-> "smb", skill_multiplier |-> 90, location |-> "Korea"],
    [name |-> "Raj Patel", region |-> "Asia Pacific", experience |-> "junior", specialty |-> "smb", skill_multiplier |-> 75, location |-> "India"],
    [name |-> "Carlos Silva", region |-> "Latin America", experience |-> "mid", specialty |-> "enterprise", skill_multiplier |-> 110, location |-> "Brazil"],
    [name |-> "Isabella Garcia", region |-> "Latin America", experience |-> "mid", specialty |-> "mid_market", skill_multiplier |-> 105, location |-> "Argentina"],
    [name |-> "Diego Morales", region |-> "Latin America", experience |-> "junior", specialty |-> "general", skill_multiplier |-> 85, location |-> "Colombia"],
    [name |-> "Camila Rodriguez", region |-> "Latin America", experience |-> "junior", specialty |-> "smb", skill_multiplier |-> 80, location |-> "Chile"] >>

\* self.reps[name]
reps ==
    [n \in {rep_list[i].name : i \in DOMAIN rep_list} |->
        rep_list[CHOOSE i \in DOMAIN rep_list : rep_list[i].name = n]]

salesforce_segments ==
    [s \in SegmentNames |->
        CASE s = "Enterprise" ->
               [min_amount |-> 100000, max_amount |-> 2000000, avg_cycle_days |-> 180,
                base_win_rate |-> 35, complexity_factor |-> 150]
          [] s = "Mid-Market" ->
               [min_amount |-> 25000, max_amount |-> 150000, avg_cycle_days |-> 90,
                base_win_rate |-> 45, complexity_factor |-> 100]
          [] s = "SMB" ->
               [min_amount |-> 5000, max_amount |-> 35000, avg_cycle_days |-> 45,
                base_win_rate |-> 25, complexity_factor |-> 70]]

\* list(self.products.keys())
ProductNames ==
    <<"API Enterprise", "Team Subscription", "Custom Enterprise", "Developer Tools">>

\* win_rate_modifier and cycle_modifier in tenths
products ==
    [p \in {ProductNames[i] : i \in DOMAIN ProductNames} |->
        CASE p = "API Enterprise" ->
               [complexity |-> "high", win_rate_modifier |-> 12, cycle_modifier |-> 11]
          [] p = "Team Subscription" ->
               [complexity |-> "low", win_rate_modifier |-> 8, cycle_modifier |-> 7]
          [] p = "Custom Enterprise" ->
               [complexity |-> "very_high", win_rate_modifier |-> 10, cycle_modifier |-> 14]
          [] p = "Developer Tools" ->
               [complexity |-> "medium", win_rate_modifier |-> 11, cycle_modifier |-> 9]]

\* indexed by the position of the stage in salesforce_stages
base_conversion_rates == <<75, 65, 55, 70, 85>>

\* self.events in insertion order
events == <<
    [name |-> "security_process_change", start_date |-> ToOrdinal(<<2024, 4, 1>>),
     affected_stage |-> "5 - Contract Review", conversion_impact |-> -15,
     velocity_impact |-> 140],
    [name |-> "pricing_model_change", start_date |-> ToOrdinal(<<2024, 7, 1>>),
     affected_stage |-> "4 - Negotiation", conversion_impact |-> -20,
     velocity_impact |-> 130],
    [name |-> "competitive_pressure", start_date |-> ToOrdinal(<<2024, 6, 1>>),
     affected_stage |-> "2 - Discovery", conversion_impact |-> -10,
     velocity_impact |-> 125] >>

-----------------------------------------------------------------------------
(* SalesforceDataGenerator: rep selection, seasonal and event modifiers *)

get_reps_for_region(reg) ==
    LET InRegion(r) == r.region = reg
        found == SelectSeq(rep_list, InRegion)
    IN  [i \in DOMAIN found |-> found[i].name]

\* the list random.choice draws the rep from
select_rep_for_account(reg, seg) ==
    LET available_reps == get_reps_for_region(reg)
        Specialised(kinds) ==
            LET Fits(r) == reps[r].specialty \in kinds
                specialized_reps == SelectSeq(available_reps, Fits)
            IN  IF specialized_reps # <<>> THEN specialized_reps ELSE available_reps
    IN  IF seg = "Enterprise" THEN Specialised({"enterprise", "general"})
        ELSE IF seg = "SMB" THEN Specialised({"smb", "general"})
        ELSE available_reps

\* volume and win_rate in hundredths
get_seasonal_multiplier(date) ==
    LET month == strftime(date)[2]
    IN  IF month \in {1, 2, 3} THEN [volume |-> 130, win_rate |-> 90]
        ELSE IF month \in {4, 5, 6} THEN [volume |-> 100, win_rate |-> 100]
        ELSE IF month \in {7, 8, 9} THEN [volume |-> 80, win_rate |-> 105]
        ELSE [volume |-> 120, win_rate |-> 110]

\* the loop over self.events, from the first event to event i; every active
\* event multiplies both modifiers (as fractions <<num, den>>)
RECURSIVE EventImpact(_, _, _)
EventImpact(stage_name, date, i) ==
    IF i = 0
    THEN [conversion_modifier |-> <<1, 1>>, velocity_modifier |-> <<1, 1>>]
    ELSE LET before == EventImpact(stage_name, date, i - 1)
             event_config == events[i]
         IN  IF date >= event_config.start_date
                /\ stage_name = event_config.affected_stage
             THEN [conversion_modifier |->
                       <<before.conversion_modifier[1]
                           * ((100 + event_config.conversion_impact) \div 5),
                         before.conversion_modifier[2] * 20>>,
                   velocity_modifier |->
                       <<before.velocity_modifier[1]
                           * (event_config.velocity_impact \div 5),
                         before.velocity_modifier[2] * 20>>]
             ELSE before

\* mutant: the start dates of the events are not looked at
get_event_impact_any_date(stage_name, date) ==
    EventImpact(stage_name, LastOrdinal, Len(events))

get_event_impact(stage_name, date) == EventImpact(stage_name, date, Len(events))

-----------------------------------------------------------------------------
(* SalesforceDataGenerator.calculate_stage_progression *)

\* complexity in hundredths
regional_modifiers ==
    [reg \in {Regions[i] : i \in DOMAIN Regions} |->
        CASE reg = "North America" -> [cycle |-> 100, complexity |-> 100]
          [] reg = "Europe" -> [cycle |-> 115, complexity |-> 110]
          [] reg = "Asia Pacific" -> [cycle |-> 125, complexity |-> 120]
          [] reg = "Latin America" -> [cycle |-> 110, complexity |-> 105]]

\* product win_rate_modifier * rep skill_multiplier * (2.0 - complexity) / 1.0
win_rate_modifier(prod, r, reg) ==
    <<products[prod].win_rate_modifier * reps[r].skill_multiplier
        * ((200 - regional_modifiers[reg].complexity) \div 5),
      10 * 100 * 20>>

\* base_conversion * win_rate_modifier * seasonal["win_rate"] * conversion_impact
RawStageConversion(prod, r, reg, date, index) ==
    LET seasonal == get_seasonal_multiplier(date)
        impact == get_event_impact(salesforce_stages[index + 1], date)
        base_conversion == base_conversion_rates[index + 1]
        modifier == win_rate_modifier(prod, r, reg)
    IN  <<(base_conversion \div 5) * modifier[1] * (seasonal.win_rate \div 5)
            * impact.conversion_modifier[1],
          20 * modifier[2] * 20 * impact.conversion_modifier[2]>>

\* stage_conversion = max(0.1, min(0.95, stage_conversion))
StageConversion(prod, r, reg, date, index) ==
    LET raw == RawStageConversion(prod, r, reg, date, index)
        floor == raw[2] \div 10
        ceiling == (raw[2] \div 20) * 19
    IN  <<Max(floor, Min(ceiling, raw[1])), raw[2]>>

\* the draws of random.random() offered to the stage loop: k / DrawGrid for
\* k < DrawGrid and, for k = DrawGrid, the largest double below 1, which
\* compares with every probability the loop can compute as 1 does
StageDraws == 0..DrawGrid

\* random.random() <= stage_conversion
Advances(k, stage_conversion) == k * stage_conversion[2] <= stage_conversion[1] * DrawGrid

\* mutant: the entry is recorded under the stage after the current one
StageEntryNextStage(index, date, stage_days, stage_conversion) ==
    [stage |-> salesforce_stages[index + 2], date |-> date,
     days_in_stage |-> stage_days, conversion_probability |-> stage_conversion]

StageEntry(index, date, stage_days, stage_conversion) ==
    [stage |-> salesforce_stages[index + 1], date |-> date,
     days_in_stage |-> stage_days, conversion_probability |-> stage_conversion]

\* mutant: the closed stage is dated a day late
ClosedEntryDayLater(final_stage, date, result) ==
    [stage |-> final_stage, date |-> date + 1, days_in_stage |-> 0, outcome |-> result]

ClosedEntry(final_stage, date, result) ==
    [stage |-> final_stage, date |-> date, days_in_stage |-> 0, outcome |-> result]

-----------------------------------------------------------------------------
(* SalesforceDataGenerator.generate_opportunities *)

\* largest sample of int(np.random.exponential(avg_stage_time))
MaxStageDays == 2

\* default arguments of generate_opportunities
salesforce_start_date == ToOrdinal(<<2023, 1, 1>>)
salesforce_end_date == ToOrdinal(<<2024, 12, 31>>)

\* outcomes of random.randint(0, (end_date - start_date).days) the model draws:
\* the last day of a quarter, so that the stages of one opportunity fall on
\* both sides of a season change and of an event start
CreatedSamples ==
    {d - salesforce_start_date :
        d \in {ToOrdinal(<<2024, 3, 31>>), ToOrdinal(<<2024, 6, 30>>),
               ToOrdinal(<<2024, 9, 30>>)}}

\* values of datetime.now() (whole days; created dates are midnights)
WallClocks == {ToOrdinal(<<2025, 9, 13>>), ToOrdinal(<<2025, 9, 14>>)}

\* the products np.random.choice / random.choice draws from
ProductChoices(seg) ==
    IF seg = "Enterprise" THEN {"API Enterprise", "Custom Enterprise"}
    ELSE IF seg = "SMB" THEN {"Team Subscription", "Developer Tools"}
    ELSE {ProductNames[i] : i \in DOMAIN ProductNames}

\* word in stage_name, for the stage names of salesforce_stages
Contains(stage_name, word) ==
    CASE word = "Closed" -> stage_name \in {"6 - Closed Lost", "7 - Closed Won"}
      [] word = "Won" -> stage_name = "7 - Closed Won"

\* int(current_stage.split(" - ")[0])
StageNum(stage_name) == CHOOSE i \in DOMAIN salesforce_stages : salesforce_stages[i] = stage_name

\* probability and expected revenue by current stage; the expected revenue of
\* an open stage is the float amount * (probability / 100), a fraction
SalesforceProbability(current_stage) ==
    IF Contains(current_stage, "Closed")
    THEN (IF Contains(current_stage, "Won") THEN 100 ELSE 0)
    ELSE Max(10, 100 - ((StageNum(current_stage) - 1) * 15))

\* mutant: every closed stage given the expected revenue of a lost one
SalesforceExpectedRevenueClosedIsZero(current_stage, amt) ==
    IF Contains(current_stage, "Closed")
    THEN 0
    ELSE <<amt * SalesforceProbability(current_stage), 100>>

SalesforceExpectedRevenue(current_stage, amt) ==
    IF Contains(current_stage, "Closed")
    THEN (IF Contains(current_stage, "Won") THEN amt ELSE 0)
    ELSE <<amt * SalesforceProbability(current_stage), 100>>

\* the record appended for a finished progression
SalesforceRecord(r, prod, reg, seg, created, amt, prog, now) ==
    LET current_stage == prog[Len(prog)].stage
        close == prog[Len(prog)].date
    IN  ("Opportunity Owner" :> r)
        @@ ("Stage" :> current_stage)
        @@ ("Amount" :> amt)
        @@ ("Expected Revenue" :> SalesforceExpectedRevenue(current_stage, amt))
        @@ ("Probability (%)" :> SalesforceProbability(current_stage))
        @@ ("Age" :> now - created)
        @@ ("Close Date" :> strftime(close))
        @@ ("Created Date" :> strftime(created))
        @@ ("Subscription Type" :> prod)
        @@ ("Account Demographics: Geo" :> reg)
        @@ ("Account Demographics: Region" :> reps[r].location)
        @@ ("Account Demographics: Area" :> seg)
        @@ ("Rep_Experience" :> reps[r].experience)
        @@ ("Rep_Specialty" :> reps[r].specialty)
        @@ ("Days_In_Current_Stage" :>
               IF Len(prog) > 1 THEN prog[Len(prog) - 1].days_in_stage ELSE 0)

\* created date, region, segment, rep, product and amount of one opportunity,
\* and the entry of calculate_stage_progression
SelectOpportunity ==
    /\ program = "salesforce"
    /\ pc = "select"
    /\ \E days_sample \in CreatedSamples, reg \in {Regions[i] : i \in DOMAIN Regions},
          seg \in SegmentNames :
          LET candidates == select_rep_for_account(reg, seg)
          IN  \E choice \in {1, Len(candidates)}, prod \in ProductChoices(seg),
                 amt \in {salesforce_segments[seg].min_amount,
                          salesforce_segments[seg].max_amount} :
                  /\ days_sample \in 0..(salesforce_end_date - salesforce_start_date)
                  /\ created_date' = salesforce_start_date + days_sample
                  /\ region' = reg
                  /\ segment' = seg
                  /\ rep' = candidates[choice]
                  /\ product' = prod
                  /\ amount' = amt
                  /\ current_date' = salesforce_start_date + days_sample
    /\ progression' = <<>>
    /\ stage_index' = 0
    /\ pc' = "stage"
    /\ UNCHANGED <<program, arguments, is_competitive, is_icp, trial_vars, stage_data, opportunity,
                   call_vars>>

\* one iteration of the while loop in which the opportunity advances
StageAdvances ==
    /\ program = "salesforce"
    /\ pc = "stage"
    /\ stage_index < Len(salesforce_stages) - 2
    /\ \E sample \in 0..MaxStageDays, k \in StageDraws :
          LET stage_conversion == StageConversion(product, rep, region, current_date,
                                                 stage_index)
              stage_days == Max(1, sample)
          IN  /\ Advances(k, stage_conversion)
              /\ progression' = Append(progression,
                                       StageEntry(stage_index, current_date, stage_days,
                                                  stage_conversion))
              /\ stage_index' = stage_index + 1
              /\ current_date' = current_date + stage_days
    /\ UNCHANGED <<program, arguments, pc, deal_vars, trial_vars, stage_data, opportunity, call_vars,
                   region, rep, product>>

\* the rest of generate_opportunities' loop body once the progression has
\* been returned
AppendOpportunity(prog) ==
    /\ stage' = prog[Len(prog)].stage
    /\ close_date' = prog[Len(prog)].date
    /\ \E now \in WallClocks :
          opportunity' = SalesforceRecord(rep, product, region, segment, created_date,
                                          amount, prog, now)
    /\ pc' = "appended"

\* the iteration in which the opportunity is lost: break, return, record
StageLoses ==
    /\ program = "salesforce"
    /\ pc = "stage"
    /\ stage_index < Len(salesforce_stages) - 2
    /\ \E sample \in 0..MaxStageDays, k \in StageDraws :
          LET stage_conversion == StageConversion(product, rep, region, current_date,
                                                 stage_index)
              stage_days == Max(1, sample)
              final_stage == "6 - Closed Lost"
              prog == progression
                        \o <<StageEntry(stage_index, current_date, stage_days,
                                        stage_conversion),
                             ClosedEntry(final_stage, current_date + stage_days,
                                         "Closed Lost")>>
          IN  /\ ~Advances(k, stage_conversion)
              /\ progression' = prog
              /\ AppendOpportunity(prog)
    /\ UNCHANGED <<program, arguments, deal_vars, highest_stage_reached, cycle_days, stage_data,
                   call_vars, region, rep, product, current_date, stage_index>>

\* the else clause of the while loop: every stage passed; return, record
AllStagesPassed ==
    /\ program = "salesforce"
    /\ pc = "stage"
    /\ ~(stage_index < Len(salesforce_stages) - 2)
    /\ LET final_stage == "7 - Closed Won"
           prog == Append(progression, ClosedEntry(final_stage, current_date, "Closed Won"))
       IN  /\ progression' = prog
           /\ AppendOpportunity(prog)
    /\ UNCHANGED <<program, arguments, deal_vars, highest_stage_reached, cycle_days, stage_data,
                   call_vars, region, rep, product, current_date, stage_index>>

\* for i in range(num_opportunities): the next iteration starts
NextOpportunity ==
    /\ program = "salesforce"
    /\ pc = "appended"
    /\ pc' = "select"
    /\ created_date' = 0
    /\ segment' = None
    /\ amount' = 0
    /\ stage' = None
    /\ close_date' = 0
    /\ opportunity' = NoOpportunity
    /\ region' = None
    /\ rep' = None
    /\ product' = None
    /\ progression' = <<>>
    /\ current_date' = 0
    /\ stage_index' = 0
    /\ UNCHANGED <<program, arguments, is_competitive, is_icp, highest_stage_reached, cycle_days,
                   stage_data, call_vars>>

\* SalesforceDataGenerator() constructed, generate_opportunities entered
InitSalesforce ==
    /\ program = "salesforce"
    /\ arguments = [start_date |-> salesforce_start_date, end_date |-> salesforce_end_date]
    /\ pc = "select"
    /\ NoDeal
    /\ NoTrial
    /\ NoCall
    /\ NoWalk

NextSalesforce ==
    \/ SelectOpportunity
    \/ StageAdvances
    \/ StageLoses
    \/ AllStagesPassed
    \/ NextOpportunity

SpecSalesforce == InitSalesforce /\ [][NextSalesforce]_vars

\* either script is run
InitBoth == Init \/ InitSalesforce
NextBoth == Next \/ NextSalesforce
SpecBoth == InitBoth /\ [][NextBoth]_vars

-----------------------------------------------------------------------------
(* Properties of GlobalSalesDataGenerator *)

\* a record has just been appended by generate_opportunities
Emitted == program = "global" /\ pc = "appended"

ClosedStages == {"6 - Closed Lost", "7 - Closed Won"}
NonTerminal == 1..5
StageNumber(name) == CHOOSE i \in 1..7 : stages[i] = name
EntryDate(o, i) == o[DateField(i)]
Dwell(o, i) == o[DaysField(i)]
HasDate(o, i) == EntryDate(o, i) # NoDate
HasDwell(o, i) == Dwell(o, i) # NoDays
DaysBetween(from, to) == ToOrdinal(to) - ToOrdinal(from)

RECURSIVE SumDwell(_, _)
SumDwell(o, i) ==
    IF i = 0 THEN 0
    ELSE SumDwell(o, i - 1) + (IF HasDwell(o, i) THEN Val(Dwell(o, i)) ELSE 0)

\* C1: in every emitted record the non-null stage entry dates are
\* non-decreasing in stage order, and the stages a closed deal did not reach
\* (after the highest stage of a lost deal, the other terminal stage; both
\* terminal stages of an open deal) have a null entry date.
C1_EntryDatesOrdered ==
    Emitted =>
        /\ \A i, j \in 1..7 :
              (i < j /\ HasDate(opportunity, i) /\ HasDate(opportunity, j))
                  => ToOrdinal(EntryDate(opportunity, i)) <= ToOrdinal(EntryDate(opportunity, j))
        /\ opportunity.Stage = "6 - Closed Lost" =>
              /\ ~HasDate(opportunity, 7)
              /\ \A i \in NonTerminal :
                    i > StageNumber(opportunity.Highest_Stage_Reached)
                        => ~HasDate(opportunity, i)
        /\ opportunity.Stage = "7 - Closed Won" => ~HasDate(opportunity, 6)
        /\ opportunity.Stage \notin ClosedStages =>
              ~HasDate(opportunity, 6) /\ ~HasDate(opportunity, 7)

\* C2: every non-null Days_in_Stage value of an emitted record is >= 0.
C2_DwellNonNegative ==
    Emitted => \A i \in 1..7 : HasDwell(opportunity, i) => Val(Dwell(opportunity, i)) >= 0

\* C3: for every closed deal the non-null Days_in_Stage values sum to exactly
\* Close_Date - Created_Date in days.
C3_DwellSumsToCycle ==
    (Emitted /\ opportunity.Stage \in ClosedStages) =>
        SumDwell(opportunity, 7) = DaysBetween(opportunity.Created_Date, opportunity.Close_Date)

\* a closed deal with a negative dwell among its stages
C3_Witness ==
    /\ Emitted
    /\ opportunity.Stage \in ClosedStages
    /\ \E i \in 1..7 : HasDwell(opportunity, i) /\ Val(Dwell(opportunity, i)) < 0

\* C5: a Closed Lost record has probability 0, expected revenue 0, a
\* non-terminal Highest_Stage_Reached, null entry date and null dwell for every
\* non-terminal stage after it, and a null Closed Won date; every other record
\* has a null Highest_Stage_Reached.
C5_ClosedLostRecord ==
    Emitted =>
        IF opportunity.Stage = "6 - Closed Lost"
        THEN /\ opportunity.Probability_Percent = 0
             /\ opportunity.Expected_Revenue = 0
             /\ \E h \in NonTerminal : stages[h] = opportunity.Highest_Stage_Reached
             /\ \A i \in NonTerminal :
                   i > StageNumber(opportunity.Highest_Stage_Reached)
                       => ~HasDate(opportunity, i) /\ ~HasDwell(opportunity, i)
             /\ ~HasDate(opportunity, 7)
        ELSE opportunity.Highest_Stage_Reached = None

\* a deal lost in Discovery, with Discovery entered and Proposal never
C5_Witness ==
    /\ Emitted
    /\ opportunity.Stage = "6 - Closed Lost"
    /\ opportunity.Highest_Stage_Reached = "2 - Discovery"
    /\ HasDate(opportunity, 2)

\* C6: the terminal stage of a closed deal is entered on Close_Date, which is
\* Created_Date plus the sampled cycle days, and the other terminal stage has
\* a null date; an open deal has both terminal dates null.
C6_TerminalDateIsCloseDate ==
    Emitted =>
        /\ DaysBetween(opportunity.Created_Date, opportunity.Close_Date) = cycle_days
        /\ opportunity.Stage = "7 - Closed Won" =>
              EntryDate(opportunity, 7) = opportunity.Close_Date /\ ~HasDate(opportunity, 6)
        /\ opportunity.Stage = "6 - Closed Lost" =>
              EntryDate(opportunity, 6) = opportunity.Close_Date /\ ~HasDate(opportunity, 7)
        /\ opportunity.Stage \notin ClosedStages =>
              ~HasDate(opportunity, 6) /\ ~HasDate(opportunity, 7)

\* a won deal whose Contract Review entry date was jittered past the close date
C6_Witness ==
    /\ Emitted
    /\ opportunity.Stage = "7 - Closed Won"
    /\ ToOrdinal(EntryDate(opportunity, 5)) > ToOrdinal(opportunity.Close_Date)

\* C10: for every open deal, exactly the stages up to the reported Stage have
\* an entry date.
C10_OpenStageMatchesTimeline ==
    (Emitted /\ opportunity.Stage \notin ClosedStages) =>
        \A i \in NonTerminal :
            HasDate(opportunity, i) <=> i <= StageNumber(opportunity.Stage)

-----------------------------------------------------------------------------
(* Properties of the pure functions of GlobalSalesDataGenerator *)

\* C7: the walk stops at the first position whose draw is not below the
\* profile's rate and returns Closed Lost with the stage at that position,
\* having made exactly that many draws; when no draw refuses it returns Closed
\* Won with "5 - Contract Review" after five draws.
C7_WalkStopsAtFirstRefusal ==
    pc = "returned" =>
        LET rates == configuration.config.stage_conversion_rates
            refused == {i \in DOMAIN rates : rng_stream[i] * 100 >= rates[i] * DrawGrid}
        IN  IF refused = {}
            THEN outcome = [final_stage |-> "7 - Closed Won",
                            highest_stage_reached |-> "5 - Contract Review",
                            draws |-> 5]
            ELSE LET first == CHOOSE i \in refused : \A j \in refused : i <= j
                 IN  outcome = [final_stage |-> "6 - Closed Lost",
                                highest_stage_reached |-> stage_names[first],
                                draws |-> first]

\* a walk refused at the third stage by a draw equal to the rate, although
\* the fourth draw would have passed
C7_Witness ==
    /\ pc = "returned"
    /\ outcome.final_stage = "6 - Closed Lost"
    /\ outcome.highest_stage_reached = "3 - Proposal"
    /\ outcome.draws = 3
    /\ LET rates == configuration.config.stage_conversion_rates
       IN  /\ rng_stream[3] * 100 = rates[3] * DrawGrid
           /\ rng_stream[4] * 100 < rates[4] * DrawGrid

\* C9: exactly one classification by fixed priority: Non-ICP for a non-ICP
\* Enterprise deal, else Competitive for a competitive deal, else Base; the
\* profile returned is that classification's table entry for the segment.
C9_ClassificationPriority ==
    pc \in {"resolved", "returned"} =>
        LET expected == IF segment = "Enterprise" /\ ~is_icp THEN "Non-ICP"
                        ELSE IF is_competitive THEN "Competitive"
                        ELSE "Base"
            table == CASE expected = "Non-ICP" -> non_icp_segments
                       [] expected = "Competitive" -> competitive_segments
                       [] expected = "Base" -> segments
        IN  /\ configuration.config_type = expected
            /\ configuration.config = table[segment]

\* a competitive non-ICP Enterprise deal, resolved
C9_Witness ==
    /\ pc = "resolved"
    /\ segment = "Enterprise"
    /\ is_competitive
    /\ ~is_icp
    /\ configuration.config_type = "Non-ICP"

-----------------------------------------------------------------------------
(* Properties of both generators *)

\* C4: in both generators a record whose Stage is "7 - Closed Won" carries
\* probability 100 and an expected revenue equal to its amount.
C4_ClosedWonFullValue ==
    pc = "appended" =>
        IF program = "global"
        THEN opportunity.Stage = "7 - Closed Won" =>
                 /\ opportunity.Probability_Percent = 100
                 /\ opportunity.Expected_Revenue = opportunity.Amount
        ELSE opportunity["Stage"] = "7 - Closed Won" =>
                 /\ opportunity["Probability (%)"] = 100
                 /\ opportunity["Expected Revenue"] = opportunity["Amount"]

\* a won Salesforce opportunity with a positive amount
C4_Witness ==
    /\ program = "salesforce"
    /\ pc = "appended"
    /\ opportunity["Stage"] = "7 - Closed Won"
    /\ opportunity["Amount"] > 0
    /\ Len(progression) = 6

-----------------------------------------------------------------------------
(* Properties of SalesforceDataGenerator *)

\* C8: the probability a stage's draw is compared with is the stage's computed
\* probability itself; a stage whose probability is 1 or more is never the
\* stage the opportunity is lost at, and one whose probability is 0 always is.
C8_ProbabilityHonoured ==
    program = "salesforce" =>
        \A i \in DOMAIN progression :
            ~Contains(progression[i].stage, "Closed") =>
                LET raw == RawStageConversion(product, rep, region,
                                              progression[i].date, i - 1)
                    lost_here == /\ i < Len(progression)
                                 /\ progression[i + 1].stage = "6 - Closed Lost"
                IN  /\ progression[i].conversion_probability = raw
                    /\ raw[1] >= raw[2] => ~lost_here
                    /\ raw[1] <= 0 => lost_here

-----------------------------------------------------------------------------
(* Properties of the records of GlobalSalesDataGenerator, continued *)

\* the classification of an emitted record, read from its own fields
RecordClass(o) ==
    IF o.Segment = "Enterprise" /\ ~o.Is_ICP_Account THEN "Non-ICP"
    ELSE IF o.Competitive_Deal THEN "Competitive"
    ELSE "Base"

\* the probability of an open deal by classification and stage position
ProbabilityTable ==
    [c \in {"Non-ICP", "Competitive", "Base"} |->
        CASE c = "Non-ICP" -> <<8, 12, 30, 50, 70>>
          [] c = "Competitive" -> <<10, 15, 25, 35, 60>>
          [] c = "Base" -> <<15, 25, 40, 65, 85>>]

\* C11: the Probability_Percent of an open deal is the entry of its reported
\* Stage in the probability table of its classification.
C11_OpenProbabilityFromTable ==
    (Emitted /\ opportunity.Stage \notin ClosedStages) =>
        opportunity.Probability_Percent
            = ProbabilityTable[RecordClass(opportunity)][StageNumber(opportunity.Stage)]

\* an open Base Mid-Market deal in Discovery, with probability 25
C11_Witness ==
    /\ Emitted
    /\ opportunity.Segment = "Mid-Market"
    /\ ~opportunity.Competitive_Deal
    /\ opportunity.Stage = "2 - Discovery"
    /\ opportunity.Probability_Percent = 25

\* C12: every emitted record has Probability_Percent in 0..100 and
\* 0 <= Expected_Revenue <= Amount.
C12_ProbabilityAndRevenueRanges ==
    Emitted =>
        /\ opportunity.Probability_Percent \in 0..100
        /\ 0 <= opportunity.Expected_Revenue
        /\ opportunity.Expected_Revenue <= opportunity.Amount

\* an open deal whose expected revenue lies strictly between 0 and its amount
C12_Witness ==
    /\ Emitted
    /\ opportunity.Stage \notin ClosedStages
    /\ 0 < opportunity.Expected_Revenue
    /\ opportunity.Expected_Revenue < opportunity.Amount

-----------------------------------------------------------------------------
(* Determinism of the emitted records *)

\* C13: the record appended is a function of the inputs and the random draws
\* of its iteration alone: for GlobalSalesDataGenerator it is the record built
\* from the iteration's locals, for SalesforceDataGenerator it is the same
\* record whatever the wall-clock time of the run.
C13_RecordDeterminedByInputsAndDraws ==
    pc = "appended" =>
        IF program = "global"
        THEN opportunity = OpportunityRecord(segment, created_date, is_competitive,
                                             is_icp, amount, stage, close_date,
                                             highest_stage_reached, stage_data)
        ELSE \A now \in WallClocks :
                 opportunity = SalesforceRecord(rep, product, region, segment,
                                                created_date, amount, progression, now)

-----------------------------------------------------------------------------
(* Arguments of generate_opportunities *)

\* generate_opportunities(num_deals, start_date, end_date) called with the
\* default start_date and an end_date on or after the default one
InitArguments ==
    /\ program = "global"
    /\ arguments \in {[start_date |-> start_date, end_date |-> end_date + late] :
                         late \in 0..MaxLateDays}
    /\ pc = "select"
    /\ NoDeal
    /\ NoTrial
    /\ NoCall
    /\ NoWalk

SpecArguments == InitArguments /\ [][Next]_vars

\* C14: a deal created after the as-of date (2025-09-13), or with a negative
\* amount, is rejected and no record is emitted for it; no emitted record has
\* a negative Age_Days
C14_FutureDealsRejected ==
    Emitted =>
        /\ created_date <= current_time
        /\ amount >= 0
        /\ opportunity.Age_Days >= 0

-----------------------------------------------------------------------------
(* The trend functions on their own *)

\* calculate_competitive_rate(segment, created_date) and
\* calculate_icp_rate(segment, created_date), in thousandths
TrendRates(seg, date) ==
    [competitive_rate |-> calculate_competitive_rate(seg, date),
     icp_rate |-> calculate_icp_rate(seg, date)]

\* the two functions are called for a segment and a date
CalculateRates ==
    /\ program = "global"
    /\ pc = "call"
    /\ return_value' = TrendRates(segment, created_date)
    /\ pc' = "returned"
    /\ UNCHANGED <<program, arguments, walk_vars, deal_vars, trial_vars, stage_data,
                   opportunity, rng_stream, configuration, outcome>>

\* they are called again for the same segment and a date up to MaxAdvance
\* days later
CalculateRatesLater ==
    /\ program = "global"
    /\ pc \in {"returned", "later"}
    /\ return_value # NoResult
    /\ \E days \in 1..MaxAdvance :
          /\ created_date + days <= LastOrdinal
          /\ created_date' = created_date + days
          /\ return_value' = TrendRates(segment, created_date + days)
    /\ pc' = "later"
    /\ UNCHANGED <<program, arguments, walk_vars, segment, is_competitive, is_icp, amount,
                   trial_vars, stage_data, opportunity, rng_stream, configuration,
                   outcome>>

InitTrend ==
    /\ program = "global"
    /\ arguments = DefaultArguments
    /\ pc = "call"
    /\ created_date \in 0..LastOrdinal
    /\ segment \in SegmentNames
    /\ is_competitive = FALSE
    /\ is_icp = FALSE
    /\ amount = 0
    /\ NoTrial
    /\ NoCall
    /\ NoWalk

NextTrend == CalculateRates \/ CalculateRatesLater

SpecTrend == InitTrend /\ [][NextTrend]_vars

\* first day of the m-th calendar month after January 2023
MonthStart ==
    [m \in 0..(12 * Cardinality(Years)) |->
        IF m = 12 * Cardinality(Years) THEN LastOrdinal + 1
        ELSE ToOrdinal(<<2023 + (m \div 12), (m % 12) + 1, 1>>)]
\* whole calendar months between January 2023 and the month of the date
WholeMonths(date) ==
    CHOOSE m \in 0..(12 * Cardinality(Years) - 1) :
        MonthStart[m] <= date /\ date < MonthStart[m + 1]

\* C15: both trend functions return a value in [0, 1] equal to the clamped
\* linear trend over the whole calendar months m since January 2023:
\* competitive = min(base + growth * m, cap), ICP = max(base - decline * m, floor)
C15_RatesAreClampedLinearTrends ==
    (program = "global" /\ pc \in {"returned", "later"} /\ return_value # NoResult) =>
        LET m == WholeMonths(created_date)
            cap == CASE segment = "Enterprise" -> 450 [] segment = "Mid-Market" -> 700
                     [] segment = "SMB" -> 250
            floor == CASE segment = "Enterprise" -> 300 [] segment = "Mid-Market" -> 450
                       [] segment = "SMB" -> 400
            linear_up == base_competitive_rates[segment]
                             + competitive_growth_rates[segment] * m
            linear_down == base_icp_rates[segment] - icp_decline_rates[segment] * m
        IN  /\ return_value.competitive_rate \in 0..1000
            /\ return_value.icp_rate \in 0..1000
            /\ return_value.competitive_rate = IF linear_up < cap THEN linear_up ELSE cap
            /\ return_value.icp_rate = IF linear_down > floor THEN linear_down ELSE floor

\* a call on the last day of a month in which the ICP trend is below its floor
\* and the competitive trend is at its cap
C15_Witness ==
    /\ program = "global"
    /\ pc = "returned"
    /\ return_value # NoResult
    /\ segment = "Mid-Market"
    /\ strftime(created_date)[3] = 31
    /\ return_value.competitive_rate = 700
    /\ return_value.icp_rate = 450

\* max_rates of calculate_competitive_rate, in thousandths
CompetitiveCap(seg) ==
    CASE seg = "Enterprise" -> 450 [] seg = "Mid-Market" -> 700 [] seg = "SMB" -> 250

\* C16: for a fixed segment the competitive rate never decreases when the
\* date moves later, and once it has reached the segment's cap (0.45, 0.70,
\* 0.25) it stays there
C16_CompetitiveRateMonotone ==
    [][(pc = "returned" \/ pc = "later") /\ pc' = "later" =>
          /\ segment' = segment
          /\ created_date' > created_date
          /\ return_value'.competitive_rate >= return_value.competitive_rate
          /\ return_value.competitive_rate = CompetitiveCap(segment) =>
                 return_value'.competitive_rate = CompetitiveCap(segment)]_vars

\* a later call for SMB whose date and whose predecessor's date both lie in
\* the months where the trend has passed the cap
C16_Witness ==
    /\ program = "global"
    /\ pc = "later"
    /\ segment = "SMB"
    /\ created_date >= MonthStart[52]
    /\ return_value.competitive_rate = 250

-----------------------------------------------------------------------------
(* The outcome walk under a raised conversion rate *)

\* the rates a conversion rate r (in hundredths) is raised to: the next
\* hundredth, the next fifth, and certainty
RaisedRates(r) == {x \in {r + 1, r + 20, 100} : r < x /\ x <= 100}

\* determine_deal_outcome_and_highest_stage run again on the same draws with
\* stage_conversion_rates[j] of the profile raised
WalkRaisedProfile ==
    /\ program = "global"
    /\ pc = "returned"
    /\ outcome # NoOutcome
    /\ LET conversion_rates == configuration.config.stage_conversion_rates
       IN  \E j \in DOMAIN conversion_rates :
              \E raised \in RaisedRates(conversion_rates[j]) :
                  return_value' =
                      [stage |-> j, conversion_rate |-> raised,
                       outcome |-> OutcomeWalk([conversion_rates EXCEPT ![j] = raised],
                                               rng_stream, 1, 0)]
    /\ pc' = "raised"
    /\ UNCHANGED <<program, arguments, walk_vars, deal_vars, trial_vars, stage_data,
                   opportunity, rng_stream, configuration, outcome>>

NextRaise == ResolveConfiguration \/ WalkOutcome \/ WalkRaisedProfile

SpecRaise == InitCall /\ [][NextRaise]_vars

\* C17: on the same draws, raising one stage's conversion rate never lowers
\* the highest stage reached, and a won deal stays won
C17_RaisedRateNeverHurts ==
    (program = "global" /\ pc = "raised") =>
        /\ StageNumber(return_value.outcome.highest_stage_reached)
               >= StageNumber(outcome.highest_stage_reached)
        /\ outcome.final_stage = "7 - Closed Won" =>
               return_value.outcome.final_stage = "7 - Closed Won"

\* a deal lost at the raised stage that, on the same draws, passes it under the
\* raised rate and ends at a later stage
C17_Witness ==
    /\ program = "global"
    /\ pc = "raised"
    /\ outcome.final_stage = "6 - Closed Lost"
    /\ outcome.draws = return_value.stage
    /\ return_value.conversion_rate < 100
    /\ StageNumber(return_value.outcome.highest_stage_reached)
           > StageNumber(outcome.highest_stage_reached)

-----------------------------------------------------------------------------
(* A deal with a seeded cycle length *)

\* calculate_deal_progression when the seeded np.random.normal has delivered
\* the sample held in cycle_days
DealProgressionSeeded ==
    /\ program = "global"
    /\ pc = "progression"
    /\ cycle_days > 0
    /\ \E walk \in WalkResults[segment, is_competitive, is_icp] :
          LET r == calculate_deal_progression(segment, created_date, is_competitive,
                                              is_icp, cycle_days, walk)
          IN  /\ stage' = r.stage
              /\ close_date' = r.close_date
              /\ highest_stage_reached' = r.highest_stage_reached
              /\ cycle_days' = r.actual_cycle
    /\ pc' = "timeline"
    /\ UNCHANGED <<program, arguments, walk_vars, deal_vars, stage_data, opportunity,
                   call_vars>>

\* the loop body has picked an Enterprise deal with a non-ICP account, created
\* on 2024-01-01, and the next cycle sample is 280 days; the base amount drawn
\* is the smallest one and the growth multiplier 5/2, inside 1.25^4 * [0.9, 1.1]
InitSeeded ==
    /\ program = "global"
    /\ arguments = DefaultArguments
    /\ pc = "progression"
    /\ created_date = ToOrdinal(<<2024, 1, 1>>)
    /\ segment = "Enterprise"
    /\ is_competitive \in BOOLEAN
    /\ is_icp = FALSE
    /\ amount = (segments["Enterprise"].min_amount * 5) \div 2
    /\ stage = None
    /\ close_date = 0
    /\ highest_stage_reached = None
    /\ cycle_days = 280
    /\ stage_data = NoStageData
    /\ opportunity = NoOpportunity
    /\ NoCall
    /\ NoWalk

NextSeeded == DealProgressionSeeded \/ StageProgression \/ AssembleOpportunity

SpecSeeded == InitSeeded /\ [][NextSeeded]_vars

\* entry date of stage i of the record lies within slack days of created + days
EntryWithin(o, i, days, slack) ==
    LET offset == DaysBetween(o.Created_Date, EntryDate(o, i))
    IN  days - slack <= offset /\ offset <= days + slack

\* C18: an Enterprise deal with a non-ICP account created on 2024-01-01 with a
\* sampled cycle of 280 days is closed at the as-of date 2025-09-13; where the
\* stages are reached, Discovery is entered 14 days after creation give or take
\* 2 days and Proposal 210 days after creation give or take 39 days
C18_StuckInDiscoveryScenario ==
    (Emitted /\ segment = "Enterprise" /\ ~is_icp /\ cycle_days = 280
        /\ created_date = ToOrdinal(<<2024, 1, 1>>)) =>
        /\ opportunity.Stage \in ClosedStages
        /\ HasDate(opportunity, 2) => EntryWithin(opportunity, 2, 14, 2)
        /\ HasDate(opportunity, 3) => EntryWithin(opportunity, 3, 210, 39)

\* the scenario ends won with Discovery entered on the earliest and Proposal
\* on the latest day the jitter allows
C18_Witness ==
    /\ Emitted
    /\ segment = "Enterprise"
    /\ ~is_icp
    /\ cycle_days = 280
    /\ created_date = ToOrdinal(<<2024, 1, 1>>)
    /\ opportunity.Stage = "7 - Closed Won"
    /\ DaysBetween(opportunity.Created_Date, EntryDate(opportunity, 2)) = 12
    /\ DaysBetween(opportunity.Created_Date, EntryDate(opportunity, 3)) = 249

-----------------------------------------------------------------------------
(* SalesforceDataGenerator.get_event_impact on its own *)

\* get_event_impact(stage, date) is called for a stage name and a date
GetEventImpact ==
    /\ program = "salesforce"
    /\ pc = "call"
    /\ return_value' = get_event_impact(stage, current_date)
    /\ pc' = "returned"
    /\ UNCHANGED <<program, arguments, walk_vars, deal_vars, trial_vars, stage_data,
                   opportunity, rng_stream, configuration, outcome>>

InitEvent ==
    /\ program = "salesforce"
    /\ arguments = [start_date |-> salesforce_start_date, end_date |-> salesforce_end_date]
    /\ pc = "call"
    /\ NoDeal
    /\ stage \in {salesforce_stages[i] : i \in DOMAIN salesforce_stages}
    /\ close_date = 0
    /\ highest_stage_reached = None
    /\ cycle_days = 0
    /\ stage_data = NoStageData
    /\ opportunity = NoOpportunity
    /\ NoCall
    /\ region = None
    /\ rep = None
    /\ product = None
    /\ progression = <<>>
    /\ current_date \in 0..LastOrdinal
    /\ stage_index = 0

SpecEvent == InitEvent /\ [][GetEventImpact]_vars

\* the events in force for a stage on a date
ActiveEvents(stage_name, date) ==
    {i \in DOMAIN events : /\ date >= events[i].start_date
                           /\ events[i].affected_stage = stage_name}

\* product over a set of events of numerator[i] / 100, as <<num, den>>
RECURSIVE HundredthsProduct(_, _)
HundredthsProduct(S, numerator) ==
    IF S = {} THEN <<1, 1>>
    ELSE LET i == CHOOSE x \in S : TRUE
             rest == HundredthsProduct(S \ {i}, numerator)
         IN  <<rest[1] * numerator[i], rest[2] * 100>>

SameFraction(a, b) == a[1] * b[2] = b[1] * a[2]

\* C19: get_event_impact(stage, date) returns, for the conversion and for the
\* velocity modifier, the product over exactly the events that have started on
\* the date and affect the stage (factors 1 + conversion_impact and
\* velocity_impact), and (1.0, 1.0) when there is no such event
C19_EventImpactIsProductOfActiveEvents ==
    (program = "salesforce" /\ pc = "returned" /\ return_value # NoResult) =>
        LET active == ActiveEvents(stage, current_date)
            conversion_factor == [i \in DOMAIN events |->
                                      100 + events[i].conversion_impact]
            velocity_factor == [i \in DOMAIN events |-> events[i].velocity_impact]
        IN  /\ SameFraction(return_value.conversion_modifier,
                            HundredthsProduct(active, conversion_factor))
            /\ SameFraction(return_value.velocity_modifier,
                            HundredthsProduct(active, velocity_factor))
            /\ active = {} =>
                   /\ SameFraction(return_value.conversion_modifier, <<1, 1>>)
                   /\ SameFraction(return_value.velocity_modifier, <<1, 1>>)

\* a call for the Negotiation stage on the day the pricing change starts
C19_Witness ==
    /\ program = "salesforce"
    /\ pc = "returned"
    /\ return_value # NoResult
    /\ stage = "4 - Negotiation"
    /\ current_date = ToOrdinal(<<2024, 7, 1>>)
    /\ SameFraction(return_value.conversion_modifier, <<4, 5>>)
    /\ SameFraction(return_value.velocity_modifier, <<13, 10>>)

-----------------------------------------------------------------------------
(* The profile and the timing curve of a deal type *)

\* the stage_progression dict calculate_stage_progression builds for the deal
\* type get_deal_configuration returned
SelectStageProgression ==
    /\ program = "global"
    /\ pc = "resolved"
    /\ return_value' = stage_progression(configuration.config_type, segment,
                                         is_competitive)
    /\ pc' = "curve"
    /\ UNCHANGED <<program, arguments, walk_vars, deal_vars, trial_vars, stage_data,
                   opportunity, rng_stream, configuration, outcome>>

NextProfile == ResolveConfiguration \/ SelectStageProgression

SpecProfile == InitCall /\ [][NextProfile]_vars

\* C20: for every segment and every combination of the two flags the profile
\* returned by get_deal_configuration has exactly five stage conversion rates,
\* each in [0, 1]; the timing curve of the deal type starts at 0.0, increases
\* strictly over the five non-terminal stages and is 1.0 at both terminal stages
C20_ProfileCompleteAndCurveShaped ==
    /\ (program = "global" /\ pc \in {"resolved", "curve"}) =>
           LET conversion_rates == configuration.config.stage_conversion_rates
           IN  /\ configuration.config_type \in {"Base", "Competitive", "Non-ICP"}
               /\ Len(conversion_rates) = 5
               /\ \A i \in 1..5 : conversion_rates[i] \in 0..100
    /\ (program = "global" /\ pc = "curve") =>
           /\ return_value.pct[1] = 0
           /\ \A i \in 1..4 : return_value.pct[i] < return_value.pct[i + 1]
           /\ return_value.pct[5] < 100
           /\ return_value.pct[6] = 100
           /\ return_value.pct[7] = 100

\* the curve of a competitive Mid-Market deal has been selected
C20_Witness ==
    /\ program = "global"
    /\ pc = "curve"
    /\ segment = "Mid-Market"
    /\ configuration.config_type = "Competitive"
    /\ Len(configuration.config.stage_conversion_rates) = 5
    /\ return_value.pct[5] = 90

-----------------------------------------------------------------------------
(* The un-jittered stage offsets on their own *)

\* days_to_stage = int(total_cycle_days * stage_pct) of stage i
DaysToStage(curve, total_cycle_days, i) ==
    TruncMul(total_cycle_days, curve.pct[i], curve.pct_err[i])

\* days_to_stage of the four later non-terminal stages is computed for a deal
\* type and a cycle length
ComputeDaysToStage ==
    /\ program = "global"
    /\ pc = "call"
    /\ cycle_days > 0
    /\ LET config_type ==
               get_deal_configuration(segment, is_competitive, is_icp).config_type
           curve == stage_progression(config_type, segment, is_competitive)
       IN  return_value' = [i \in 2..5 |-> DaysToStage(curve, cycle_days, i)]
    /\ pc' = "returned"
    /\ UNCHANGED <<program, arguments, walk_vars, deal_vars, trial_vars, stage_data,
                   opportunity, rng_stream, configuration, outcome>>

InitOffset ==
    /\ program = "global"
    /\ arguments = DefaultArguments
    /\ pc = "call"
    /\ created_date = 0
    /\ segment \in SegmentNames
    /\ is_competitive \in BOOLEAN
    /\ is_icp \in BOOLEAN
    /\ amount = 0
    /\ stage = None
    /\ close_date = 0
    /\ highest_stage_reached = None
    /\ cycle_days \in 20..MaxCycle
    /\ stage_data = NoStageData
    /\ opportunity = NoOpportunity
    /\ NoCall
    /\ NoWalk

SpecOffset == InitOffset /\ [][ComputeDaysToStage]_vars

\* round(t * n / 100) to the nearest integer, ties to the even one
RoundNearest(t, n) ==
    LET e == t * n
        N == e \div 100
    IN  IF e % 100 > 50 \/ (e % 100 = 50 /\ N % 2 = 1) THEN N + 1 ELSE N

\* C21: the un-jittered offset of every non-terminal stage is
\* round(cycle_days * timing_curve[stage]), rounded to the nearest day, for
\* every cycle length of 20 days or more and every curve
C21_OffsetRoundedToNearest ==
    (program = "global" /\ pc = "returned" /\ cycle_days >= 20
        /\ return_value # NoResult /\ DOMAIN return_value = 2..5) =>
        LET config_type ==
                get_deal_configuration(segment, is_competitive, is_icp).config_type
            curve == stage_progression(config_type, segment, is_competitive)
        IN  \A i \in 2..5 : return_value[i] = RoundNearest(cycle_days, curve.pct[i])

-----------------------------------------------------------------------------
(* Dwell of the last stage reached *)

\* the last non-terminal stage of the record with an entry date
LastStageEntered(o) ==
    CHOOSE i \in NonTerminal :
        HasDate(o, i) /\ \A j \in NonTerminal : HasDate(o, j) => j <= i

\* C22: the dwell of the last stage with an entry date is the as-of date
\* (2025-09-13) minus that entry date for an open deal, and the close date
\* minus that entry date for a closed deal
C22_LastStageDwell ==
    Emitted =>
        LET o == opportunity
            last == LastStageEntered(o)
            entered == ToOrdinal(EntryDate(o, last))
        IN  /\ HasDwell(o, last)
            /\ Val(Dwell(o, last)) =
                   IF o.Stage \in ClosedStages
                   THEN ToOrdinal(o.Close_Date) - entered
                   ELSE current_time - entered

-----------------------------------------------------------------------------
(* Chance of the outcome walk ending won *)

\* probability that the loop of determine_deal_outcome_and_highest_stage passes
\* stages i.. of the profile, as <<num, den>>: random.random() < conversion_rate
\* holds with probability conversion_rate (a multiple of 1/20)
RECURSIVE WinChance(_, _)
WinChance(conversion_rates, i) ==
    IF i > Len(conversion_rates)
    THEN <<1, 1>>
    ELSE LET rest == WinChance(conversion_rates, i + 1)
         IN  <<(conversion_rates[i] \div 5) * rest[1], 20 * rest[2]>>

\* C23: for every segment and classification the probability that
\* determine_deal_outcome_and_highest_stage ends won, the product of the five
\* stage conversion rates, equals the win_rate configured for the profile
C23_WinChanceIsWinRate ==
    (program = "global" /\ pc = "returned" /\ outcome # NoOutcome) =>
        LET chance == WinChance(configuration.config.stage_conversion_rates, 1)
        IN  chance[1] * 100 = configuration.config.win_rate * chance[2]

-----------------------------------------------------------------------------
(* Entry dates against the close date *)

\* C24: in a closed deal, won or lost, no non-terminal stage has an entry
\* date later than the Close_Date
C24_NoEntryAfterClose ==
    (Emitted /\ opportunity.Stage \in ClosedStages) =>
        \A i \in NonTerminal :
            HasDate(opportunity, i) =>
                ToOrdinal(EntryDate(opportunity, i)) <= ToOrdinal(opportunity.Close_Date)

-----------------------------------------------------------------------------
(* One classification in the four places that branch on the deal type *)

\* the stage-timing curves by classification, in hundredths of the cycle
TimingCurveTable ==
    [c \in {"Non-ICP", "Competitive", "Base"} |->
        CASE c = "Non-ICP" -> <<0, 5, 75, 85, 95, 100, 100>>
          [] c = "Competitive" -> <<0, 8, 15, 18, 90, 100, 100>>
          [] c = "Base" -> <<0, 15, 35, 55, 75, 100, 100>>]

\* the progress thresholds of the open stages 2..5 by classification
ThresholdTable ==
    [c \in {"Non-ICP", "Competitive", "Base"} |->
        CASE c = "Non-ICP" -> <<10, 60, 75, 90>>
          [] c = "Competitive" -> <<10, 20, 25, 80>>
          [] c = "Base" -> <<15, 35, 55, 75>>]

\* the open stage the thresholds of a classification give for a progress ratio
OpenStageOf(class, ratio) ==
    stage_names[1 + Cardinality({k \in 1..4 : RatioAtLeast(ratio, ThresholdTable[class][k])})]

\* what the deal-type branches select for a segment and the two flags: the
\* profile, the timing curve, the probability table and the outcomes of the walk
Selected(seg, competitive, icp) ==
    LET configuration_of == get_deal_configuration(seg, competitive, icp)
    IN  [profile |-> configuration_of,
         curve |-> stage_progression(configuration_of.config_type, seg, competitive),
         probabilities |-> stage_probs(configuration_of.config_type, seg, competitive),
         outcomes |-> WalkResults[seg, competitive, icp]]

-----------------------------------------------------------------------------
(* Closed exactly when the close date has come *)

\* C26: the Stage of a deal is Closed Won or Closed Lost exactly when its
\* Close_Date (created + sampled cycle days) is on or before the as-of date
\* 2025-09-13; an open deal has a later Close_Date and one of the five
\* non-terminal stages
C26_ClosedIffCloseDateReached ==
    Emitted =>
        /\ ToOrdinal(opportunity.Close_Date) = created_date + cycle_days
        /\ opportunity.Stage \in ClosedStages
               <=> ToOrdinal(opportunity.Close_Date) <= current_time
        /\ opportunity.Stage \notin ClosedStages =>
               /\ ToOrdinal(opportunity.Close_Date) > current_time
               /\ \E i \in NonTerminal : opportunity.Stage = stage_names[i]

\* a deal whose close date is the as-of date itself, reported closed
C26_Witness ==
    /\ Emitted
    /\ ToOrdinal(opportunity.Close_Date) = current_time
    /\ opportunity.Stage \in ClosedStages

-----------------------------------------------------------------------------
(* Fields of the result of calculate_stage_progression *)

\* C27: the result of calculate_stage_progression has all seven Stage_*_Date
\* and all seven Days_in_Stage_* fields in every outcome branch; the dwell of a
\* stage is null exactly when its entry date is null, and
\* Stage_1_Lead_Qualification_Date is the created date
C27_StageDataComplete ==
    (program = "global" /\ pc \in {"assemble", "appended"}) =>
        /\ DOMAIN stage_data = {DateField(i) : i \in 1..7} \cup {DaysField(i) : i \in 1..7}
        /\ \A i \in 1..7 :
               stage_data[DaysField(i)] = NoDays <=> stage_data[DateField(i)] = NoDate
        /\ stage_data[DateField(1)] = strftime(created_date)

\* a deal lost in Discovery: the stages after it have neither date nor dwell
C27_Witness ==
    /\ program = "global"
    /\ pc = "assemble"
    /\ stage = "6 - Closed Lost"
    /\ highest_stage_reached = "2 - Discovery"
    /\ stage_data[DateField(3)] = NoDate
    /\ stage_data[DaysField(3)] = NoDays
    /\ stage_data[DaysField(6)] # NoDays

-----------------------------------------------------------------------------
(* The open stage as a function of the elapsed fraction of the cycle *)

\* calculate_deal_progression is called again for the same segment and flags
\* and a deal that is open and at least as far through its cycle as the one of
\* the previous call
DealProgressionFurther ==
    /\ program = "global"
    /\ pc \in {"timeline", "further"}
    /\ stage \notin {"6 - Closed Lost", "7 - Closed Won"}
    /\ \E age \in 0..MaxCycle, normal_sample \in 19..MaxCycle :
          \* the outcome walk is not called for an open deal
          LET r == calculate_deal_progression(segment, current_time - age,
                                              is_competitive, is_icp, normal_sample,
                                              NoOutcome)
          IN  /\ r.close_date > current_time
              /\ age * cycle_days >= (current_time - created_date) * r.actual_cycle
              /\ created_date' = current_time - age
              /\ stage' = r.stage
              /\ close_date' = r.close_date
              /\ highest_stage_reached' = r.highest_stage_reached
              /\ cycle_days' = r.actual_cycle
    /\ pc' = "further"
    /\ UNCHANGED <<program, arguments, walk_vars, segment, is_competitive, is_icp, amount,
                   stage_data, opportunity, call_vars>>

\* a deal of any segment and flags created up to MaxCycle days before the
\* as-of date
InitProgress ==
    /\ program = "global"
    /\ arguments = DefaultArguments
    /\ pc = "progression"
    /\ created_date \in (current_time - MaxCycle)..current_time
    /\ segment \in SegmentNames
    /\ is_competitive \in BOOLEAN
    /\ is_icp \in BOOLEAN
    /\ amount = segments[segment].min_amount
    /\ NoTrial
    /\ NoCall
    /\ NoWalk

NextProgress == DealProgression \/ DealProgressionFurther

SpecProgress == InitProgress /\ [][NextProgress]_vars

\* C28: for each classification the open stage calculate_deal_progression
\* reports never moves back when the elapsed fraction of the cycle grows, and
\* an Enterprise non-ICP deal is in "2 - Discovery" for every elapsed fraction
\* in [0.10, 0.60)
C28_OpenStageMonotone ==
    [][/\ (pc \in {"timeline", "further"} /\ pc' = "further") =>
              /\ (current_time - created_date') * cycle_days
                     >= (current_time - created_date) * cycle_days'
              /\ StageNumber(stage') >= StageNumber(stage)
       /\ (pc' \in {"timeline", "further"} /\ close_date' > current_time
              /\ segment' = "Enterprise" /\ ~is_icp'
              /\ 10 * cycle_days' <= 100 * (current_time - created_date')
              /\ 100 * (current_time - created_date') < 60 * cycle_days') =>
              stage' = "2 - Discovery"]_vars

\* a further call for a competitive non-ICP Enterprise deal more than half way
\* through its cycle, still reported in Discovery
C28_Witness ==
    /\ program = "global"
    /\ pc = "further"
    /\ segment = "Enterprise"
    /\ ~is_icp
    /\ is_competitive
    /\ 2 * (current_time - created_date) > cycle_days
    /\ stage = "2 - Discovery"

-----------------------------------------------------------------------------
(* Shape of the progression of SalesforceDataGenerator *)

\* calculate_stage_progression has returned and the record has been appended
SalesforceReturned == program = "salesforce" /\ pc = "appended"
TerminalEntry(entry) == entry.stage \in {"6 - Closed Lost", "7 - Closed Won"}

\* the loop has taken one step per entry and at most five; the progression
\* returned ends with its only terminal entry; the entries before it are the
\* stages 1..k in order, the first on the created date, on strictly
\* increasing dates
ProgressionShape ==
    /\ (program = "salesforce" /\ pc = "stage") =>
           /\ Len(progression) = stage_index
           /\ stage_index <= 5
    /\ SalesforceReturned =>
           LET n == Len(progression)
           IN  /\ n \in 2..6
               /\ TerminalEntry(progression[n])
               /\ \A i \in 1..(n - 1) :
                      /\ ~TerminalEntry(progression[i])
                      /\ progression[i].stage = salesforce_stages[i]
               /\ progression[1].date = created_date
               /\ \A i \in 1..(n - 2) : progression[i].date < progression[i + 1].date

\* C29: calculate_stage_progression returns after at most five stage steps a
\* progression whose last and only terminal entry follows the stages 1..k in
\* order on strictly increasing dates from the created date, and the deal is
\* won exactly when all five non-terminal stages appear
C29_ProgressionWonIffFiveStages ==
    /\ ProgressionShape
    /\ SalesforceReturned =>
           (progression[Len(progression)].stage = "7 - Closed Won"
                <=> Len(progression) - 1 = 5)

\* C29, amended: as above, but a won deal has all five non-terminal stages
\* and a lost deal has the stages 1..k up to the stage k in 1..5 at which it
\* was lost, so a deal lost in Contract Review shows all five as well
C29_ProgressionWonHasFiveStages ==
    /\ ProgressionShape
    /\ SalesforceReturned =>
           /\ progression[Len(progression)].stage = "7 - Closed Won"
                  => Len(progression) - 1 = 5
           /\ progression[Len(progression)].stage = "6 - Closed Lost"
                  => Len(progression) - 1 \in 1..5

\* a deal lost in Contract Review: five non-terminal entries, then Closed Lost
C29_Witness ==
    /\ SalesforceReturned
    /\ Len(progression) = 6
    /\ progression[5].stage = "5 - Contract Review"
    /\ progression[6].stage = "6 - Closed Lost"

-----------------------------------------------------------------------------
(* Close date of SalesforceDataGenerator against the days in stage *)

\* sum of days_in_stage over the first k entries of a progression
RECURSIVE SumDaysInStage(_, _)
SumDaysInStage(prog, k) ==
    IF k = 0 THEN 0 ELSE SumDaysInStage(prog, k - 1) + prog[k].days_in_stage

\* C30: for won and lost deals alike the date of the terminal entry, which is
\* the Close Date of the record, is the created date plus the sum of
\* days_in_stage over the non-terminal entries; each of these is at least 1,
\* so Close Date is strictly after Created Date
C30_CloseDateIsCreatedPlusDays ==
    SalesforceReturned =>
        LET n == Len(progression)
        IN  /\ \A i \in 1..(n - 1) : progression[i].days_in_stage >= 1
            /\ progression[n].date = created_date + SumDaysInStage(progression, n - 1)
            /\ opportunity["Close Date"] = strftime(progression[n].date)
            /\ opportunity["Created Date"] = strftime(created_date)
            /\ ToOrdinal(opportunity["Close Date"]) > ToOrdinal(opportunity["Created Date"])

\* a won deal with a stage of more than one day
C30_Witness ==
    /\ SalesforceReturned
    /\ opportunity["Stage"] = "7 - Closed Won"
    /\ SumDaysInStage(progression, 5) > 5
    /\ ToOrdinal(opportunity["Close Date"])
           = created_date + SumDaysInStage(progression, 5)

====
